---------------------------- MODULE Spec2Model ----------------------------
(***************************************************************************)
(* The harvest pipeline of the crawler (src/src/harvester.py): per-source  *)
(* Harvester instances that enumerate sitemap links, skip what the store   *)
(* already holds, fetch through the rate-limited _get, retry transient     *)
(* failures once and insert advertisements into the shared SQLite store.   *)
(*                                                                         *)
(* Time is kept relative: every timestamp attribute is represented by its  *)
(* age, time() - timestamp, in seconds, saturated at MaxElapsed.  The Tick *)
(* action lets one second pass for every thread at once.                   *)
(***************************************************************************)
EXTENDS Integers, Sequences, FiniteSets, TLC

\* ---------------------------------------------------------------- bounds
\* Ages of timestamps saturate here (must be at least the largest crawl delay).
MaxElapsed == 2
\* harvest() calls one harvester instance makes.
MaxPasses == 2
\* calls made on one database by the analysing program
MaxCalls == 3
\* queries made on the robots parser of one harvester
MaxQueries == 4

\* ---------------------------------------------------------------- domains
Workers == {"w1", "w2"}
URLs == {"u1", "u2", "u3"}
BaseUrl == "base"
SitemapUrl == "sitemap.xml"

None == <<>>
Some(x) == <<x>>
IsNone(o) == o = <<>>
Val(o) == o[1]

Min(a, b) == IF a < b THEN a ELSE b
Max(a, b) == IF a > b THEN a ELSE b
Saturate(t) == Min(t, MaxElapsed)

\* Response bodies: the empty string, a whitespace-only string, a document.
EmptyBody == ""
BlankBody == " "
HtmlBody == "<html>"
ErrorBody == "error page"
\* str.strip() on the bodies of the model.
Strip(s) == IF s = BlankBody THEN EmptyBody ELSE s
StrLen(s) == IF s = EmptyBody THEN 0 ELSE 1

\* The status codes get_next_advert retries after.
TransientStatuses == {500, 502, 503, 504}

\* Cookie jars a response may carry (RequestsCookieJar as a set of names).
CookieJars == {{}, {"sid"}}

\* ---------------------------------------------------------------- state
VARIABLES
    \* configuration and environment, fixed after construction
    engine,             \* [w] class name of the harvester
    requests_per_minute,\* [w] config["requests_per_minute"]
    retry_timeout,      \* [w] config["retry_timeout"], minutes
    passes,             \* [w] harvest() calls this worker will make (0: portal absent)
    robots,             \* [w] the robots.txt of the portal: its directives, how the GET ends
    sitemaps,           \* [w] the sitemap documents of the portal
    site,               \* [u] the responses the server may give for content URL u
    jars,               \* the cookie jars a response may carry
    portals,            \* config["portals"]: the engine name of every portal
    faults,             \* [u] the stage at which storing the advertisement of u fails
    matches,            \* [u] ids of the keywords that match the advertisement of u
    \* program state
    Harvester,          \* class attributes of Harvester
    self,               \* [w] instance __dict__: own (names set) and values
    pc,                 \* [w] position in harvest()
    pass,               \* [w] number of the running harvest() call
    frag,               \* [w] index of the sitemap being enumerated
    idx,                \* [w] index of the link within the sitemap
    req,                \* [w] the request _get is handling
    pending,            \* [w] the request waiting for the cookies property
    wait,               \* [w] seconds left of the running sleep()
    response,           \* [w] the last response _get returned
    advert,             \* [w] the advertisement yielded to harvest()
    advertisements,     \* the advertisements table, row id = position
    keywords,           \* the keywords table, row id = position
    keyword_advertisement, \* the keyword_advertisement table: <<keyword_id, advertisement_id>>
    main,               \* the thread running harvest_command
    counters,           \* [w] ads_processed, ads_stored, errors of the running harvest()
    analyzer,           \* the AdvertAnalyzer instance: compiled_keywords
    truncated,          \* keywords rows deleted so far: AUTOINCREMENT keeps their ids
    \* observation
    cand,               \* [w] what happened to the current candidate
    good_at_start,      \* [w] URLs that had a harvested row when the pass began
    regexes,            \* [w] ids of the keywords harvest() fetched when the pass began
    stored              \* [w] row ids the worker inserted in the running pass

vars == <<engine, requests_per_minute, retry_timeout, passes, robots, sitemaps,
          site, jars, portals, faults, matches, Harvester, self, pc, pass, frag,
          idx, req, pending, wait, response, advert, advertisements, keywords,
          keyword_advertisement, main, counters, analyzer, truncated, cand,
          good_at_start, regexes,
          stored>>

\* What no step changes.
config == <<engine, requests_per_minute, retry_timeout, passes, robots, sitemaps,
            site, jars, portals, faults, matches>>

\* What harvest() never touches: the keywords table, harvest_command's frame
\* and the analyzer.
outside == <<keywords, main, analyzer, truncated>>


\* ---------------------------------------------------------------- store
Row(url, status, body, ad_type) ==
    [url |-> url, http_status |-> status, html_body |-> body, ad_type |-> ad_type]

\* (mutant) the lookup by url never matches.
RowsOf_nomatch(table, url) == {}

RowsOf(table, url) == {i \in 1..Len(table) : table[i].url = url}

\* (mutant) the url column is not declared UNIQUE.
UniqueViolated_unenforced(table, url) == FALSE

\* CREATE TABLE advertisements (... url TEXT NOT NULL UNIQUE ...): the constraint
\* the store checks on every INSERT.
UniqueViolated(table, url) == RowsOf(table, url) # {}

\* (mutant) any row of the URL counts, whatever its status and body.
advertisement_exists_anyrow(table, url) == RowsOf(table, url) # {}

\* advertisement_exists: SELECT ... WHERE url = ?; fetchone(); then
\* status_code == 200 and html_body and len(html_body.strip()) > 0
advertisement_exists(table, url) ==
    /\ RowsOf(table, url) # {}
    /\ LET result == table[CHOOSE i \in RowsOf(table, url) :
                               \A j \in RowsOf(table, url) : i <= j]
       IN  /\ result.http_status = 200
           /\ result.html_body # EmptyBody
           /\ StrLen(Strip(result.html_body)) > 0

\* A row the data model calls successfully harvested: status 200 and a body
\* that holds more than whitespace.
Harvested(table, url) ==
    \E i \in 1..Len(table) :
        /\ table[i].url = url
        /\ table[i].http_status = 200
        /\ table[i].html_body \notin {EmptyBody, BlankBody}

\* keywords rows: title, search, case_sensitive.
Keyword(title, search, case_sensitive) ==
    [title |-> title, search |-> search, case_sensitive |-> case_sensitive]
TwoKeywords == <<Keyword("Python", "python", FALSE), Keyword("C", "\\bC\\b", TRUE)>>

\* _compile_keyword: re.compile(search) succeeds on the patterns of the model
\* except the unbalanced parenthesis.
InvalidPattern == "("
Compiles(search) == search # InvalidPattern

\* (mutant) INSERT OR REPLACE: the row of that search text takes the new
\* title and case_sensitive.
insert_keyword_replace(table, keyword) ==
    IF \E i \in 1..Len(table) : table[i].search = keyword.search
    THEN [i \in 1..Len(table) |->
             IF table[i].search = keyword.search THEN keyword ELSE table[i]]
    ELSE Append(table, keyword)

\* insert_keyword: INSERT OR IGNORE INTO keywords ...; commit.  The row is
\* ignored when its search text is in the table (search TEXT NOT NULL UNIQUE);
\* the pattern is not compiled here.
insert_keyword(table, keyword) ==
    IF \E i \in 1..Len(table) : table[i].search = keyword.search
    THEN table
    ELSE Append(table, keyword)

\* fetch_keywords: ids of the keywords table mapped to compiled patterns; the
\* ids when every pattern compiles, None when re.compile raises.
fetch_keywords(table) ==
    IF \A i \in 1..Len(table) : Compiles(table[i].search)
    THEN Some(1..Len(table)) ELSE None

\* match_keywords: the ids whose pattern is found in the text of the
\* advertisement; None when get_title() or get_description() raises.
match_keywords(link, compiled) ==
    IF faults[link] = "extract" THEN None ELSE Some(matches[link] \cap compiled)

\* Texts and literal patterns are tuples of characters.
Chars == {"S", "Q", "L", "s", "q", "l", " ", "x"}
ToLower(c) == CASE c = "S" -> "s" [] c = "Q" -> "q" [] c = "L" -> "l" [] OTHER -> c
Fold(t) == [i \in DOMAIN t |-> ToLower(t[i])]

\* The pattern is found somewhere in the text.
Occurs(p, t) == \E i \in 0..(Len(t) - Len(p)) : SubSeq(t, i + 1, i + Len(p)) = p

\* (mutant) every pattern is compiled with re.IGNORECASE.
compile_keyword_ignorecase(search, case_sensitive) ==
    [pattern |-> search, ignorecase |-> TRUE]

\* _compile_keyword: re.compile(search) when case_sensitive, else
\* re.compile(search, re.IGNORECASE)
compile_keyword(search, case_sensitive) ==
    [pattern |-> search, ignorecase |-> ~case_sensitive]

\* regex.search(text) of a compiled literal pattern
Search(regex, t) ==
    IF regex.ignorecase THEN Occurs(Fold(regex.pattern), Fold(t))
                        ELSE Occurs(regex.pattern, t)

\* dict(...) of fetch_keywords: the items <<id, compiled pattern>> in the
\* order of the rows.
CompiledItems(table) ==
    [i \in 1..Len(table) |->
        <<i, compile_keyword(table[i].search, table[i].case_sensitive)>>]

\* bool(s) of an Optional[str]
NonEmpty(t) == ~IsNone(t) /\ Val(t) # <<>>

\* (mutant) the full scope looks at the title alone when there is one.
SearchText_title_first(ad, title_only) ==
    IF title_only \/ NonEmpty(ad.title) THEN ad.title
    ELSE IF NonEmpty(ad.description) THEN ad.description
    ELSE Some(ad.source)

\* match_keywords, the text searched: the title under title_only (None when
\* there is none); else title and description joined by a space when both
\* are truthy, the truthy one of the two, or advert.source.
SearchText(ad, title_only) ==
    IF title_only THEN ad.title
    ELSE IF NonEmpty(ad.title) /\ NonEmpty(ad.description)
    THEN Some(Val(ad.title) \o <<" ">> \o Val(ad.description))
    ELSE IF NonEmpty(ad.title) THEN ad.title
    ELSE IF NonEmpty(ad.description) THEN ad.description
    ELSE Some(ad.source)

RECURSIVE Matching(_, _)
\* for keyword_id, regex in regexes.items(): if regex.search(search_text):
\* result.append(keyword_id)
Matching(items, t) ==
    IF items = <<>> THEN <<>>
    ELSE (IF Search(Head(items)[2], t) THEN <<Head(items)[1]>> ELSE <<>>)
             \o Matching(Tail(items), t)

\* (mutant) a missing title falls back to the full scope.
KeywordManager_match_keywords_fallback(ad, items, title_only) ==
    LET t == SearchText(ad, title_only /\ ~IsNone(ad.title))
    IN  IF IsNone(t) THEN <<>> ELSE Matching(items, Val(t))

\* KeywordManager.match_keywords(advert, regexes, title_only): the list of the
\* ids whose pattern is found in the search text, empty when there is no text.
KeywordManager_match_keywords(ad, items, title_only) ==
    LET t == SearchText(ad, title_only)
    IN  IF IsNone(t) THEN <<>> ELSE Matching(items, Val(t))

\* A transaction of one connection: the advertisement row and the tags
\* written and not yet committed.
NoTransaction == [row |-> FALSE, tags |-> {}, raised |-> FALSE]

\* The ids whose INSERT may have gone through when a later one fails.
PartlyWritten(matched) == {k \in SUBSET matched : k # matched \/ matched = {}}

\* (mutant) the error is raised again without the rollback.
store_keyword_matches_no_rollback(txn, matched, written, failing) ==
    IF matched = {} THEN txn
    ELSE IF failing THEN [txn EXCEPT !.tags = written, !.raised = TRUE]
    ELSE [txn EXCEPT !.tags = matched]

\* store_keyword_matches: nothing to do for an empty list; else one INSERT per
\* id and a commit; on sqlite3.Error (after the ids in written) a rollback of
\* the connection, and the error is raised again.
store_keyword_matches(txn, matched, written, failing) ==
    IF matched = {} THEN txn
    ELSE IF failing THEN [NoTransaction EXCEPT !.raised = TRUE]
    ELSE [txn EXCEPT !.tags = matched]

\* The INSERT of the advertisement row raises sqlite3.Error.
RowRefused(link) == UniqueViolated(advertisements, link) \/ faults[link] = "insert"

\* harvest(), from the INSERT of the advertisement to the commit: what the
\* connection has made durable when the advertisement is done with.
Transaction(link, compiled, written) ==
    IF RowRefused(link)
    THEN [NoTransaction EXCEPT !.raised = TRUE]
    ELSE LET inserted == [NoTransaction EXCEPT !.row = TRUE]
             matched == match_keywords(link, compiled)
         IN  IF IsNone(matched) THEN inserted
             ELSE store_keyword_matches(inserted, Val(matched), written,
                                        faults[link] = "tags")

\* The ids of a list of keyword ids.
Ids(keyword_ids) == {keyword_ids[i] : i \in DOMAIN keyword_ids}

\* (mutant) the new associations are added to those already there.
update_advertisement_keywords_union(table, ad_id, keyword_ids) ==
    table \cup {<<k, ad_id>> : k \in Ids(keyword_ids)}

\* AdvertAnalyzer.update_advertisement_keywords: DELETE the associations of
\* the advertisement, store the new ones, commit.  An id listed twice makes
\* its second INSERT fail on PRIMARY KEY (keyword_id, advertisement_id); the
\* rollback then undoes the DELETE as well.
update_advertisement_keywords(table, ad_id, keyword_ids) ==
    LET deleted == {t \in table : t[2] # ad_id}
        failing == Cardinality(Ids(keyword_ids)) # Len(keyword_ids)
        txn == store_keyword_matches(NoTransaction, Ids(keyword_ids), {}, failing)
    IN  IF txn.raised THEN table
        ELSE deleted \cup {<<k, ad_id>> : k \in txn.tags}

\* ---------------------------------------------------------------- attributes
\* Python attribute lookup: the instance __dict__ first, then the class.
Attr(w, a) == IF a \in self[w].own THEN self[w][a] ELSE Harvester[a]
SetAttr(s, a, v) == [s EXCEPT !.own = @ \cup {a}, ![a] = v]

\* (mutant) the assignments go to the class: every instance sees them.
Store_shared(w, s) ==
    /\ Harvester' = [a \in DOMAIN Harvester |->
                         IF a \in s.own THEN s[a] ELSE Harvester[a]]
    /\ self' = [self EXCEPT ![w] = [self[w] EXCEPT !.crawl_delay = s.crawl_delay,
                                                    !.own = s.own \cap {"crawl_delay"}]]

\* self.<attribute> = ... : the assignments of a step write the instance
\* __dict__ of w (s is the instance after them); the class attributes stay.
Store(w, s) ==
    /\ self' = [self EXCEPT ![w] = s]
    /\ UNCHANGED Harvester

\* bool(jar) of an Optional[RequestsCookieJar]
Truthy(c) == ~IsNone(c) /\ Val(c) # {}

AdType(w) == IF engine[w] = "StepStoneHarvester" THEN "StepstoneAdvertisement"
                                                 ELSE "KarriereAdvertisement"

\* crawl_delay: robots_value = parser.crawl_delay(AGENT) or 0
RobotsValue(parser) == IF IsNone(parser.crawl_delay) THEN 0 ELSE Val(parser.crawl_delay)

\* (mutant) the smaller of the two delays is taken.
crawl_delay_min(w, parser) == Min(60 \div requests_per_minute[w], RobotsValue(parser))

\* return max(60 / requests_per_minute, robots_value)
crawl_delay(w, parser) == Max(60 \div requests_per_minute[w], RobotsValue(parser))

NoRequest == [kind |-> "none", url |-> "", ret |-> "", now |-> None]
Request(kind, url, ret) == [kind |-> kind, url |-> url, ret |-> ret, now |-> None]
NoResponse == [status_code |-> 0, text |-> EmptyBody, cookies |-> {}]
\* requests.get raises (requests.ConnectionError, a timeout, ...): no response.
ConnectionError == "ConnectionError"
Raises(resp) == resp.text = ConnectionError
NoAdvert == [status |-> 0, link |-> "", source |-> EmptyBody]
NoCand == [url |-> "", tries |-> 0, first |-> 0, sleeps |-> 0, row |-> 0,
           done |-> FALSE, known |-> FALSE, error |-> FALSE]

\* The sitemap being enumerated and its links.
Fragment(w) == sitemaps[w].nested[frag[w]]

\* (mutant) the links of a sitemap are taken last to first.
Link_reversed(w) == Fragment(w).links[Len(Fragment(w).links) + 1 - idx[w]]

\* for url in root.findall(".//ns:url/ns:loc"): the links in document order.
Link(w) == Fragment(w).links[idx[w]]

\* The responses the server may give to the request of worker w.
Answers(w) ==
    LET r == req[w] IN
    IF r.kind = "content"
    THEN {[status_code |-> a.status, text |-> a.text,
           cookies |-> IF a.text = ConnectionError THEN {} ELSE j] :
              a \in (IF cand[w].tries = 0 THEN site[r.url].first
                                           ELSE site[r.url].retry),
              j \in jars}
    ELSE IF r.kind = "sitemap"
    THEN LET d == IF r.url = SitemapUrl THEN sitemaps[w].root ELSE Fragment(w)
         IN  {[status_code |-> d.status, text |-> d.doc, cookies |-> j] : j \in jars}
    ELSE {[status_code |-> 200, text |-> HtmlBody, cookies |-> j] : j \in jars}


\* ---------------------------------------------------------------- time
\* One second passes: every timestamp ages, every running sleep() gets shorter.
Tick ==
    /\ Harvester' = [Harvester EXCEPT !.last_request = Saturate(@ + 1)]
    /\ self' = [w \in Workers |->
                   IF "last_request" \in self[w].own
                   THEN [self[w] EXCEPT !.last_request = Saturate(@ + 1)]
                   ELSE self[w]]
    /\ wait' = [w \in Workers |-> Max(0, wait[w] - 1)]
    /\ UNCHANGED <<config, outside, counters, keyword_advertisement, pc, pass, frag, idx, req, pending, response, advert,
                   advertisements, cand, good_at_start, regexes, stored>>

\* ---------------------------------------------------------------- _get
\* (mutant) the caller uses requests.get in place of self._get: the request
\* is sent without the throttle.
CallGet_direct(w, r, with_cookies) ==
    /\ req' = [req EXCEPT ![w] = r]
    /\ pending' = [pending EXCEPT ![w] = NoRequest]
    /\ pc' = [pc EXCEPT ![w] = "sleep"]

\* A call of self._get(url, ...); with cookies=self.cookies the cookies property
\* is evaluated first and, while self._cookies is falsy, GETs the base URL.
CallGet(w, r, with_cookies) ==
    /\ IF with_cookies /\ ~Truthy(Attr(w, "cookies"))
       THEN /\ req' = [req EXCEPT ![w] = Request("bootstrap", BaseUrl, "cookies")]
            /\ pending' = [pending EXCEPT ![w] = r]
       ELSE /\ req' = [req EXCEPT ![w] = r]
            /\ pending' = [pending EXCEPT ![w] = NoRequest]
    /\ pc' = [pc EXCEPT ![w] = "get"]

\* Protego.parse(requests.get(...).text): the status of the answer is not
\* looked at, and a text without robots directives parses to a policy with no
\* crawl delay and no sitemap.
Protego_parse(robot) ==
    IF robot.fetch = "ok"
    THEN [crawl_delay |-> robot.crawl_delay, sitemaps |-> TRUE,
          disallow |-> robot.disallow]
    ELSE [crawl_delay |-> None, sitemaps |-> FALSE, disallow |-> {}]

\* requests.get(f"{self.url}/robots.txt") raises, the parser not being cached.
RobotsRaises(w) == IsNone(Attr(w, "robot_parser")) /\ robots[w].fetch = "raises"

\* _get_robot_parser: requests.get(f"{self.url}/robots.txt") unless cached.
\* The instance after the call.
WithRobotParser(w) ==
    IF IsNone(Attr(w, "robot_parser"))
    THEN SetAttr(self[w], "robot_parser", Some(Protego_parse(robots[w])))
    ELSE self[w]

\* ads_processed = 0; ads_stored = 0; errors = 0
NoCounters == [ads_processed |-> 0, ads_stored |-> 0, errors |-> 0]

\* ads_processed += 1, ads_stored += 1, errors += 1 in the frame of harvest()
Count(w, counter) == counters' = [counters EXCEPT ![w][counter] = @ + 1]

\* Variant: the exception of one harvester cancels the passes of all.
Failed_propagates(w) ==
    /\ IF engine[w] = "KarriereHarvester" /\ req[w].kind = "sitemap"
       THEN /\ pc' = [pc EXCEPT ![w] = "next_sitemap"]
            /\ frag' = [frag EXCEPT ![w] = @ + 1]
            /\ UNCHANGED <<cand, counters>>
       ELSE /\ pc' = [v \in Workers |-> "idle"]
            /\ Count(w, "errors")
            /\ cand' = [cand EXCEPT ![w] =
                   IF @.url # "" /\ ~@.done
                   THEN [@ EXCEPT !.done = TRUE, !.error = TRUE] ELSE @]
            /\ UNCHANGED frag
    /\ req' = [req EXCEPT ![w] = NoRequest]

\* An exception leaves _get.  The sitemap loop of the Karriere enumerator
\* catches it and goes on with the next sitemap; everywhere else it reaches
\* the outer handler of harvest(), which ends the pass.
Failed(w) ==
    /\ IF engine[w] = "KarriereHarvester" /\ req[w].kind = "sitemap"
       THEN /\ pc' = [pc EXCEPT ![w] = "next_sitemap"]
            /\ frag' = [frag EXCEPT ![w] = @ + 1]
            /\ UNCHANGED <<cand, counters>>
       ELSE /\ pc' = [pc EXCEPT ![w] = "idle"]
            /\ Count(w, "errors")
            /\ cand' = [cand EXCEPT ![w] =
                   IF @.url # "" /\ ~@.done
                   THEN [@ EXCEPT !.done = TRUE, !.error = TRUE] ELSE @]
            /\ UNCHANGED frag
    /\ req' = [req EXCEPT ![w] = NoRequest]

\* _get, first evaluation of the cached property crawl_delay: now = time() has
\* been read, then the robots parser is fetched and the delay computed.
GetCrawlDelay(w) ==
    /\ pc[w] = "get"
    /\ "crawl_delay" \notin self[w].own
    /\ IF RobotsRaises(w)
       THEN /\ Failed(w)
            /\ UNCHANGED <<Harvester, self>>
       ELSE /\ LET s == WithRobotParser(w)
               IN  Store(w, SetAttr(s, "crawl_delay",
                                    crawl_delay(w, Val(s.robot_parser))))
            /\ req' = [req EXCEPT ![w].now = Some(Attr(w, "last_request"))]
            /\ UNCHANGED <<pc, frag, cand, counters>>
    /\ UNCHANGED <<config, outside, keyword_advertisement, pass, idx, pending, wait,
                   response, advert, advertisements, good_at_start, regexes, stored>>

\* now = time(), as the age of self._last_request when it was read.
NowAge(w) == IF IsNone(req[w].now) THEN Attr(w, "last_request") ELSE Val(req[w].now)

\* self._last_request = time(); requests.get(...); cookies of the response kept.
SendRequest(w) ==
    \E resp \in Answers(w) :
        IF Raises(resp)
        THEN /\ Store(w, SetAttr(self[w], "last_request", 0))
             /\ Failed(w)
             /\ UNCHANGED response
        ELSE /\ LET s == SetAttr(self[w], "last_request", 0)
                IN  Store(w, IF resp.cookies # {}
                             THEN SetAttr(s, "cookies", Some(resp.cookies))
                             ELSE s)
             /\ response' = [response EXCEPT ![w] = resp]
             /\ cand' = [cand EXCEPT ![w] =
                    IF req[w].kind # "content" THEN @
                    ELSE IF @.tries = 0
                         THEN [@ EXCEPT !.tries = 1, !.first = resp.status_code]
                         ELSE [@ EXCEPT !.tries = @ + 1]]
             /\ pc' = [pc EXCEPT ![w] = req[w].ret]
             /\ req' = [req EXCEPT ![w] = NoRequest]
             /\ UNCHANGED <<frag, counters>>

\* (mutant) _get never waits.
SleepNeeded_never(w, now_age) == FALSE

\* if self._last_request + self.crawl_delay > now: sleep(...)
SleepNeeded(w, now_age) == now_age < Attr(w, "crawl_delay")

GetThrottle(w) ==
    /\ pc[w] = "get"
    /\ "crawl_delay" \in self[w].own
    /\ IF SleepNeeded(w, NowAge(w))
       THEN /\ wait' = [wait EXCEPT ![w] = Attr(w, "crawl_delay") - NowAge(w)]
            /\ req' = [req EXCEPT ![w].now = Some(NowAge(w))]
            /\ pc' = [pc EXCEPT ![w] = "sleep"]
            /\ UNCHANGED <<Harvester, self, response, cand, frag, counters>>
       ELSE /\ SendRequest(w)
            /\ UNCHANGED wait
    /\ UNCHANGED <<config, outside, keyword_advertisement, pass, idx, pending, advert,
                   advertisements, good_at_start, regexes, stored>>

\* sleep(delay) has returned.
GetWake(w) ==
    /\ pc[w] = "sleep"
    /\ wait[w] = 0
    /\ SendRequest(w)
    /\ UNCHANGED <<config, outside, keyword_advertisement, pass, idx, pending, wait, advert,
                   advertisements, good_at_start, regexes, stored>>

\* cookies property after its _get(self.url): self._cookies = response.cookies,
\* then the call that asked for the cookies goes on.
Cookies(w) ==
    /\ pc[w] = "cookies"
    /\ Store(w, SetAttr(self[w], "cookies", Some(response[w].cookies)))
    /\ req' = [req EXCEPT ![w] = pending[w]]
    /\ pending' = [pending EXCEPT ![w] = NoRequest]
    /\ pc' = [pc EXCEPT ![w] = "get"]
    /\ response' = [response EXCEPT ![w] = NoResponse]
    /\ UNCHANGED <<config, outside, counters, keyword_advertisement, pass, frag, idx, wait, advert,
                   advertisements, cand, good_at_start, regexes, stored>>

\* ---------------------------------------------------------------- harvest
\* harvest_command is not in the picture (harvest() is called directly).
NoMain == [pc |-> "none", keywords |-> <<>>, portal |-> 0, threads |-> <<>>,
           joined |-> 0, error |-> FALSE]

\* The worker may run: its thread has been started, or harvest() is called
\* directly.
Running(w) ==
    \/ main.pc \in {"none", "analyze"}
    \/ /\ main.pc \notin {"none", "analyze"}
       /\ \E i \in 1..Len(main.threads) : main.threads[i] = w

\* harvest(): the keywords are fetched and compiled (an error there ends the
\* call), then the first advert is asked for.
StartPass(w) ==
    /\ pc[w] = "idle"
    /\ pass[w] < passes[w]
    /\ Running(w)
    /\ pass' = [pass EXCEPT ![w] = @ + 1]
    /\ pc' = [pc EXCEPT ![w] = IF IsNone(fetch_keywords(keywords)) THEN "idle"
                                                                  ELSE "links"]
    /\ frag' = [frag EXCEPT ![w] = 0]
    /\ idx' = [idx EXCEPT ![w] = 0]
    /\ cand' = [cand EXCEPT ![w] = NoCand]
    /\ stored' = [stored EXCEPT ![w] = {}]
    /\ counters' = [counters EXCEPT ![w] = NoCounters]
    /\ good_at_start' = [good_at_start EXCEPT ![w] =
                            {u \in URLs : Harvested(advertisements, u)}]
    /\ regexes' = [regexes EXCEPT ![w] =
                      IF IsNone(fetch_keywords(keywords)) THEN {}
                      ELSE {truncated + i : i \in Val(fetch_keywords(keywords))}]
    /\ UNCHANGED <<config, outside, keyword_advertisement, Harvester, self, req, pending, wait, response, advert,
                   advertisements>>

\* The pass is over: the generator is exhausted; the summary is logged.
EndPass(w) == pc' = [pc EXCEPT ![w] = "idle"]

\* An exception reached the outer handler of harvest(): errors += 1, then the
\* summary is logged and harvest() returns.
Critical(w) == EndPass(w) /\ Count(w, "errors")

\* The engines whose get_next_link is written; the others inherit the one of
\* Harvester, which raises NotImplementedError.
Implemented(w) == engine[w] \in {"StepStoneHarvester", "KarriereHarvester"}

\* get_next_link, up to its first request.  StepStone GETs <url>/sitemap.xml;
\* Karriere reads the sitemap list of the robots parser.
Links(w) ==
    /\ pc[w] = "links"
    /\ IF ~Implemented(w)
       THEN /\ Critical(w)
            /\ UNCHANGED <<Harvester, self, frag, req, pending>>
       ELSE IF engine[w] = "StepStoneHarvester"
       THEN /\ CallGet(w, Request("sitemap", SitemapUrl, "root"), FALSE)
            /\ UNCHANGED <<Harvester, self, frag, counters>>
       ELSE IF RobotsRaises(w)
       THEN /\ EndPass(w)
            /\ UNCHANGED <<Harvester, self, frag, req, pending, counters>>
       ELSE /\ Store(w, WithRobotParser(w))
            /\ IF Val(WithRobotParser(w).robot_parser).sitemaps
               THEN /\ frag' = [frag EXCEPT ![w] = 1]
                    /\ pc' = [pc EXCEPT ![w] = "next_sitemap"]
               ELSE /\ EndPass(w)
                    /\ UNCHANGED frag
            /\ UNCHANGED <<req, pending, counters>>
    /\ UNCHANGED <<config, outside, keyword_advertisement, pass, idx, wait, response, advert,
                   advertisements, cand, good_at_start, regexes, stored>>

\* raise_for_status() and ET.fromstring() of the StepStone enumerator.
ParsedOrRaise(resp) == resp.status_code < 400 /\ resp.text = "xml"

\* The checks of the Karriere enumerator before it reads the links.
ParsedOrSkip(resp) ==
    /\ resp.status_code = 200
    /\ StrLen(Strip(resp.text)) > 0
    /\ resp.text = "xml"

\* StepStone, the main sitemap has answered.
Root(w) ==
    /\ pc[w] = "root"
    /\ IF ParsedOrRaise(response[w])
       THEN /\ frag' = [frag EXCEPT ![w] = 1]
            /\ pc' = [pc EXCEPT ![w] = "next_sitemap"]
            /\ UNCHANGED counters
       ELSE /\ Critical(w)
            /\ UNCHANGED frag
    /\ response' = [response EXCEPT ![w] = NoResponse]
    /\ UNCHANGED <<config, outside, keyword_advertisement, Harvester, self, pass, idx, req, pending, wait,
                   advert, advertisements, cand, good_at_start, regexes, stored>>

\* The loop over the sitemap locations: those not matching the engine's name
\* pattern are passed over, the next matching one is requested.
NextSitemap(w) ==
    /\ pc[w] = "next_sitemap"
    /\ IF frag[w] > Len(sitemaps[w].nested)
       THEN /\ EndPass(w)
            /\ UNCHANGED <<frag, req, pending>>
       ELSE IF ~Fragment(w).match
       THEN /\ frag' = [frag EXCEPT ![w] = @ + 1]
            /\ UNCHANGED <<pc, req, pending>>
       ELSE /\ CallGet(w, Request("sitemap", "nested", "sitemap"),
                       engine[w] = "StepStoneHarvester")
            /\ UNCHANGED frag
    /\ UNCHANGED <<config, outside, counters, keyword_advertisement, Harvester, self, pass, idx, wait, response, advert,
                   advertisements, cand, good_at_start, regexes, stored>>

\* A sitemap has answered: StepStone raises on a bad one, Karriere skips it.
Sitemap(w) ==
    /\ pc[w] = "sitemap"
    /\ IF engine[w] = "StepStoneHarvester"
       THEN IF ParsedOrRaise(response[w])
            THEN /\ idx' = [idx EXCEPT ![w] = 1]
                 /\ pc' = [pc EXCEPT ![w] = "candidate"]
                 /\ UNCHANGED <<frag, counters>>
            ELSE /\ Critical(w)
                 /\ UNCHANGED <<idx, frag>>
       ELSE IF ParsedOrSkip(response[w])
            THEN /\ idx' = [idx EXCEPT ![w] = 1]
                 /\ pc' = [pc EXCEPT ![w] = "candidate"]
                 /\ UNCHANGED <<frag, counters>>
            ELSE /\ frag' = [frag EXCEPT ![w] = @ + 1]
                 /\ pc' = [pc EXCEPT ![w] = "next_sitemap"]
                 /\ UNCHANGED <<idx, counters>>
    /\ response' = [response EXCEPT ![w] = NoResponse]
    /\ UNCHANGED <<config, outside, keyword_advertisement, Harvester, self, pass, req, pending, wait,
                   advert, advertisements, cand, good_at_start, regexes, stored>>

\* get_next_advert, the head of its loop: the next link is taken and skipped
\* when advertisement_exists, fetched otherwise.
Candidate(w) ==
    /\ pc[w] = "candidate"
    /\ IF idx[w] > Len(Fragment(w).links)
       THEN /\ frag' = [frag EXCEPT ![w] = @ + 1]
            /\ pc' = [pc EXCEPT ![w] = "next_sitemap"]
            /\ UNCHANGED <<idx, cand, req, pending>>
       ELSE IF advertisement_exists(advertisements, Link(w))
       THEN /\ idx' = [idx EXCEPT ![w] = @ + 1]
            /\ cand' = [cand EXCEPT ![w] =
                   [NoCand EXCEPT !.url = Link(w), !.known = TRUE, !.done = TRUE]]
            /\ UNCHANGED <<frag, pc, req, pending>>
       ELSE /\ cand' = [cand EXCEPT ![w] = [NoCand EXCEPT !.url = Link(w)]]
            /\ CallGet(w, Request("content", Link(w), "first"), TRUE)
            /\ UNCHANGED <<frag, idx>>
    /\ UNCHANGED <<config, outside, counters, keyword_advertisement, Harvester, self, pass, wait, response, advert,
                   advertisements, good_at_start, regexes, stored>>

\* (mutant) every error status is retried.
IsTransient_any_error(status) == status >= 400

\* if response.status_code in (500, 502, 503, 504)
IsTransient(status) == status \in TransientStatuses

\* yield StepstoneAdvertisement / KarriereAdvertisement(status=..., link=...,
\* source=response.text)
Yield(w) == [status |-> response[w].status_code, link |-> cand[w].url,
             source |-> response[w].text]

\* (mutant) raise_for_status(): a non-200 answer ends the pass.
Classify_raise(w) ==
    IF response[w].status_code # 200
    THEN /\ Critical(w)
         /\ cand' = [cand EXCEPT ![w].done = TRUE]
         /\ UNCHANGED <<idx, advert>>
    ELSE /\ advert' = [advert EXCEPT ![w] = Yield(w)]
         /\ pc' = [pc EXCEPT ![w] = "select"]
         /\ Count(w, "ads_processed")
         /\ UNCHANGED <<idx, cand>>

\* (mutant) only 410 skips the link: every other status is yielded.
Classify_only_gone(w) ==
    IF response[w].status_code = 410
    THEN /\ idx' = [idx EXCEPT ![w] = @ + 1]
         /\ pc' = [pc EXCEPT ![w] = "candidate"]
         /\ cand' = [cand EXCEPT ![w].done = TRUE]
         /\ UNCHANGED <<advert, counters>>
    ELSE /\ advert' = [advert EXCEPT ![w] = Yield(w)]
         /\ pc' = [pc EXCEPT ![w] = "select"]
         /\ Count(w, "ads_processed")
         /\ UNCHANGED <<idx, cand>>

\* The tail of the loop body: 410 and every other non-200 status are logged
\* and skip the link, a 200 yields the advertisement to harvest(), whose loop
\* body starts with ads_processed += 1.
Classify(w) ==
    IF response[w].status_code = 410 \/ response[w].status_code # 200
    THEN /\ idx' = [idx EXCEPT ![w] = @ + 1]
         /\ pc' = [pc EXCEPT ![w] = "candidate"]
         /\ cand' = [cand EXCEPT ![w].done = TRUE]
         /\ UNCHANGED <<advert, counters>>
    ELSE /\ advert' = [advert EXCEPT ![w] = Yield(w)]
         /\ pc' = [pc EXCEPT ![w] = "select"]
         /\ Count(w, "ads_processed")
         /\ UNCHANGED <<idx, cand>>

\* The first response for the link: a transient status starts
\* sleep(self.retry_timeout * 60), any other is classified.
First(w) ==
    /\ pc[w] = "first"
    /\ IF IsTransient(response[w].status_code)
       THEN /\ wait' = [wait EXCEPT ![w] = Saturate(retry_timeout[w] * 60)]
            /\ pc' = [pc EXCEPT ![w] = "retry_sleep"]
            /\ cand' = [cand EXCEPT ![w].sleeps = @ + 1]
            /\ UNCHANGED <<idx, advert, counters>>
       ELSE /\ Classify(w)
            /\ UNCHANGED wait
    /\ response' = [response EXCEPT ![w] = NoResponse]
    /\ UNCHANGED <<config, outside, keyword_advertisement, Harvester, self, pass, frag, req, pending,
                   advertisements, good_at_start, regexes, stored>>

\* The retry sleep has returned: the link is requested once more.
RetryWake(w) ==
    /\ pc[w] = "retry_sleep"
    /\ wait[w] = 0
    /\ CallGet(w, Request("content", cand[w].url, "retried"), TRUE)
    /\ UNCHANGED <<config, outside, counters, keyword_advertisement, Harvester, self, pass, frag, idx, wait, response, advert,
                   advertisements, cand, good_at_start, regexes, stored>>

\* (mutant) the response of the retry is dropped and the link given up.
Retried_dropped(w) ==
    /\ pc[w] = "retried"
    /\ idx' = [idx EXCEPT ![w] = @ + 1]
    /\ pc' = [pc EXCEPT ![w] = "candidate"]
    /\ cand' = [cand EXCEPT ![w].done = TRUE]
    /\ response' = [response EXCEPT ![w] = NoResponse]
    /\ UNCHANGED <<config, outside, counters, keyword_advertisement, Harvester, self, pass, frag, req, pending, wait,
                   advert, advertisements, good_at_start, regexes, stored>>

\* (mutant) a transient status of the retry is waited on for ever.
Retried_again(w) ==
    /\ pc[w] = "retried"
    /\ IF IsTransient(response[w].status_code)
       THEN UNCHANGED <<pc, idx, cand, advert, counters, response>>
       ELSE /\ Classify(w)
            /\ response' = [response EXCEPT ![w] = NoResponse]
    /\ UNCHANGED <<config, outside, keyword_advertisement, Harvester, self, pass, frag, req, pending, wait,
                   advertisements, good_at_start, regexes, stored>>

\* The response of the retry is classified whatever its status.
Retried(w) ==
    /\ pc[w] = "retried"
    /\ Classify(w)
    /\ response' = [response EXCEPT ![w] = NoResponse]
    /\ UNCHANGED <<config, outside, keyword_advertisement, Harvester, self, pass, frag, req, pending, wait,
                   advertisements, good_at_start, regexes, stored>>

\* (mutant) the row a URL has is overwritten with the new answer.
Select_overwrite(w) ==
    /\ pc[w] = "select"
    /\ IF RowsOf(advertisements, advert[w].link) # {}
       THEN /\ idx' = [idx EXCEPT ![w] = @ + 1]
            /\ pc' = [pc EXCEPT ![w] = "candidate"]
            /\ cand' = [cand EXCEPT ![w].done = TRUE]
            /\ advert' = [advert EXCEPT ![w] = NoAdvert]
            /\ advertisements' =
                   [i \in 1..Len(advertisements) |->
                       IF advertisements[i].url = advert[w].link
                       THEN Row(advert[w].link, advert[w].status, advert[w].source,
                                AdType(w))
                       ELSE advertisements[i]]
       ELSE /\ pc' = [pc EXCEPT ![w] = "insert"]
            /\ UNCHANGED <<idx, cand, advert, advertisements>>
    /\ UNCHANGED <<config, outside, counters, keyword_advertisement, Harvester, self, pass, frag, req, pending, wait, response,
                   good_at_start, regexes, stored>>

\* harvest(), SELECT id FROM advertisements WHERE url = ?: a URL that has a
\* row is passed over.
Select(w) ==
    /\ pc[w] = "select"
    /\ IF RowsOf(advertisements, advert[w].link) # {}
       THEN /\ idx' = [idx EXCEPT ![w] = @ + 1]
            /\ pc' = [pc EXCEPT ![w] = "candidate"]
            /\ cand' = [cand EXCEPT ![w].done = TRUE]
            /\ advert' = [advert EXCEPT ![w] = NoAdvert]
       ELSE /\ pc' = [pc EXCEPT ![w] = "insert"]
            /\ UNCHANGED <<idx, cand, advert>>
    /\ UNCHANGED <<config, outside, counters, keyword_advertisement, Harvester, self, pass, frag, req, pending, wait, response,
                   advertisements, good_at_start, regexes, stored>>

\* harvest(), INSERT INTO advertisements ..., the keyword matches and the
\* commit; the store refuses a second row for a URL (sqlite3.IntegrityError,
\* rolled back).
Insert(w) ==
    /\ pc[w] = "insert"
    /\ \E written \in PartlyWritten(matches[advert[w].link]) :
        LET id == Len(advertisements) + 1
            txn == Transaction(advert[w].link, regexes[w], written)
        IN  /\ advertisements' =
                   IF txn.row
                   THEN Append(advertisements,
                               Row(advert[w].link, advert[w].status,
                                   advert[w].source, AdType(w)))
                   ELSE advertisements
            /\ keyword_advertisement' =
                   keyword_advertisement \cup {<<k, id>> : k \in txn.tags}
            /\ stored' = [stored EXCEPT ![w] = IF txn.row THEN @ \cup {id} ELSE @]
            /\ Count(w, IF RowRefused(advert[w].link) THEN "errors" ELSE "ads_stored")
            /\ cand' = [cand EXCEPT ![w].done = TRUE,
                                    ![w].row = IF txn.row THEN id ELSE 0,
                                    ![w].error = txn.raised]
    /\ idx' = [idx EXCEPT ![w] = @ + 1]
    /\ pc' = [pc EXCEPT ![w] = "candidate"]
    /\ advert' = [advert EXCEPT ![w] = NoAdvert]
    /\ UNCHANGED <<config, outside, Harvester, self, pass, frag, req, pending, wait,
                   response, good_at_start, regexes>>

Step(w) ==
    \/ StartPass(w)
    \/ Links(w)
    \/ Root(w)
    \/ NextSitemap(w)
    \/ Sitemap(w)
    \/ Candidate(w)
    \/ GetCrawlDelay(w)
    \/ GetThrottle(w)
    \/ GetWake(w)
    \/ Cookies(w)
    \/ First(w)
    \/ RetryWake(w)
    \/ Retried(w)
    \/ Select(w)
    \/ Insert(w)

Next == Tick \/ \E w \in Workers : Step(w)

\* ---------------------------------------------------------------- harvest_command
\* HarvesterFactory.engines
RegisteredEngines == {"StepStoneHarvester", "KarriereHarvester"}

\* The harvester built for the i-th portal and run by the i-th thread.
WorkerOf(i) == IF i = 1 THEN "w1" ELSE "w2"

\* The thread of w has run harvester_wrapper to its end.
Finished(w) == Running(w) /\ pc[w] = "idle" /\ pass[w] = passes[w]

RECURSIVE InsertAll(_, _)
\* for keyword in config["keywords"]: keyword_manager.insert_keyword(...)
InsertAll(table, list) ==
    IF list = <<>> THEN table
    ELSE InsertAll(insert_keyword(table, Head(list)), Tail(list))

\* harvest_command up to the loop over the harvesters: the configuration is
\* loaded, the schema created, the configured keywords inserted.
Setup ==
    /\ main.pc = "start"
    /\ keywords' = InsertAll(keywords, main.keywords)
    /\ main' = [main EXCEPT !.pc = "create", !.portal = 1]
    /\ UNCHANGED <<config, counters, analyzer, truncated, Harvester, self, pc, pass, frag, idx, req, pending, wait,
                   response, advert, advertisements, keyword_advertisement, cand,
                   good_at_start, regexes, stored>>

\* for harvester in harvester_factory.get_next_harvester(): the generator
\* looks at the next portal only now; a registered engine gives a harvester
\* whose thread is started at once, an unregistered one raises ValueError,
\* which the handler at the end of harvest_command logs before it returns.
NextHarvester ==
    /\ main.pc = "create"
    /\ main' = IF main.portal > Len(portals)
               THEN [main EXCEPT !.pc = "join"]
               ELSE IF portals[main.portal] \in RegisteredEngines
               THEN [main EXCEPT !.threads = Append(@, WorkerOf(main.portal)),
                                 !.portal = @ + 1]
               ELSE [main EXCEPT !.pc = "returned", !.error = TRUE]
    /\ UNCHANGED <<config, counters, analyzer, truncated, Harvester, self, pc, pass, frag, idx, req, pending, wait,
                   response, advert, advertisements, keywords, keyword_advertisement,
                   cand, good_at_start, regexes, stored>>

\* for i, thread in enumerate(threads): thread.join(); then commit, close
\* and return.
JoinThread ==
    /\ main.pc = "join"
    /\ IF main.joined = Len(main.threads)
       THEN main' = [main EXCEPT !.pc = "returned"]
       ELSE /\ Finished(main.threads[main.joined + 1])
            /\ main' = [main EXCEPT !.joined = @ + 1]
    /\ UNCHANGED <<config, counters, analyzer, truncated, Harvester, self, pc, pass, frag, idx, req, pending, wait,
                   response, advert, advertisements, keywords, keyword_advertisement,
                   cand, good_at_start, regexes, stored>>

NextPool == Next \/ Setup \/ NextHarvester \/ JoinThread

\* ---------------------------------------------------------------- keyword calls
\* The calls made on a database outside harvest(): the last keyword given to
\* insert_keyword, the last call of update_advertisement_keywords and the
\* one before it.
NoUpdate == [ad_id |-> 0, keyword_ids |-> <<>>]
NoCalls == [pc |-> "calls", op |-> "none", keyword |-> None,
            update |-> NoUpdate, previous |-> NoUpdate]

\* The keywords a configuration may list: two of them share their search
\* text, one does not compile.
ConfigKeywords == {Keyword("Python", "python", FALSE),
                   Keyword("Py", "python", TRUE),
                   Keyword("Paren", InvalidPattern, FALSE)}

\* What match_keywords returns: ids of the keywords table in the order of the
\* table, each at most once.
KeywordIdLists == {<<>>, <<1>>, <<2>>, <<1, 2>>}

\* keyword_manager.insert_keyword(connection, keyword)
InsertKeyword ==
    \E keyword \in ConfigKeywords :
        /\ main.pc = "calls"
        /\ keywords' = insert_keyword(keywords, keyword)
        /\ main' = [main EXCEPT !.op = "insert_keyword", !.keyword = Some(keyword)]
        /\ UNCHANGED <<config, counters, analyzer, truncated, Harvester, self, pc, pass, frag, idx, req, pending,
                       wait, response, advert, advertisements, keyword_advertisement,
                       cand, good_at_start, regexes, stored>>

\* analyzer.update_advertisement_keywords(ad.id, matched_keyword_ids) for a
\* stored advertisement
UpdateAdvertisementKeywords ==
    \E ad_id \in 1..Len(advertisements), keyword_ids \in KeywordIdLists :
        /\ main.pc = "calls"
        /\ Ids(keyword_ids) \subseteq 1..Len(keywords)
        /\ keyword_advertisement' =
               update_advertisement_keywords(keyword_advertisement, ad_id, keyword_ids)
        /\ main' = [main EXCEPT !.op = "update_advertisement_keywords",
                                !.update = [ad_id |-> ad_id, keyword_ids |-> keyword_ids],
                                !.previous = main.update]
        /\ UNCHANGED <<config, counters, analyzer, truncated, Harvester, self, pc, pass, frag, idx, req, pending,
                       wait, response, advert, advertisements, keywords, cand,
                       good_at_start, regexes, stored>>

NextKeywords == InsertKeyword \/ UpdateAdvertisementKeywords

\* ---------------------------------------------------------------- matching
\* An advertisement as match_keywords sees it: get_title(), get_description()
\* and source.
Advert(title, description, source) ==
    [title |-> title, description |-> description, source |-> source]

\* No call of match_keywords made yet.
NoMatch == [pc |-> "match", advert |-> Advert(None, None, <<>>), title_only |-> TRUE,
            regexes |-> <<>>, result |-> <<>>]

\* The orders in which a dict of the compiled keywords may hold its items.
Orders(items) ==
    {o \in [1..Len(items) -> 1..Len(items)] : \A i, j \in 1..Len(items) : o[i] = o[j] => i = j}

\* The keywords of the matching examples: SQL in exact case, sql in any case.
CaseKeywords == <<Keyword("SQL", <<"S", "Q", "L">>, TRUE),
                  Keyword("sql", <<"s", "q", "l">>, FALSE)>>
Texts == {<<"S", "Q", "L">>, <<"s", "q", "l">>, <<"x">>}
OptionalTexts == {None, Some(<<>>)} \cup {Some(t) : t \in Texts}

\* keyword_manager.match_keywords(advert, regexes, title_only) on the compiled
\* keywords of the store
MatchKeywords ==
    \E title \in OptionalTexts, description \in OptionalTexts, source \in Texts,
       title_only \in BOOLEAN, o \in Orders(CompiledItems(keywords)) :
        LET ad == Advert(title, description, source)
            items == [i \in 1..Len(keywords) |-> CompiledItems(keywords)[o[i]]]
        IN  /\ main.pc = "match"
            /\ main' = [main EXCEPT !.advert = ad, !.title_only = title_only,
                                    !.regexes = items,
                                    !.result = KeywordManager_match_keywords(
                                                   ad, items, title_only)]
            /\ UNCHANGED <<config, counters, analyzer, truncated, Harvester, self, pc, pass, frag,
                           idx, req, pending, wait, response, advert, advertisements,
                           keywords, keyword_advertisement, cand, good_at_start, regexes, stored>>

NextMatch == MatchKeywords

\* ---------------------------------------------------------------- analyzer
\* The database of the analyzer's connection: the keywords table, the ids its
\* deleted rows have used up and the keyword_advertisement table.
Database(table, deleted, tags) ==
    [keywords |-> table, truncated |-> deleted, keyword_advertisement |-> tags]

\* reset_keyword_tables: DELETE FROM keyword_advertisement; DELETE FROM
\* keywords; commit.  id is INTEGER PRIMARY KEY AUTOINCREMENT: the ids of the
\* deleted rows are not given again.
reset_keyword_tables(db) ==
    Database(<<>>, db.truncated + Len(db.keywords), {})

\* load_keywords_from_config: insert_keyword for every keyword of the
\* configuration file, commit; nothing to do without keywords.
load_keywords_from_config(db, file) ==
    [db EXCEPT !.keywords = InsertAll(@, file)]

\* _compile_keyword_patterns: fetch_keywords(connection), the items
\* <<id, compiled pattern>> of the rows now in the keywords table.
compile_keyword_patterns(db) ==
    [i \in 1..Len(db.keywords) |->
        <<db.truncated + i, CompiledItems(db.keywords)[i][2]>>]

\* match_keywords_for_ad(ad): compiles when nothing is compiled yet, then
\* keyword_manager.match_keywords(ad, self.compiled_keywords) with its default
\* title_only=True.
match_keywords_for_ad(compiled_keywords, db, ad) ==
    KeywordManager_match_keywords(
        ad,
        IF compiled_keywords = <<>> THEN compile_keyword_patterns(db)
                                    ELSE compiled_keywords,
        TRUE)

\* The condition of fetch_by_condition: id >= min_id AND id <= max_id, each
\* part only when given.
InRange(ad_id, min_id, max_id) ==
    /\ IsNone(min_id) \/ ad_id >= Val(min_id)
    /\ IsNone(max_id) \/ ad_id <= Val(max_id)

\* The bodies of two pages: one whose title is SQL and that has no
\* description, one titled x whose description is sql.
TitledBody == "<h1>SQL</h1>"
DescribedBody == "<h1>x</h1><p>sql</p>"

\* A page with a title, as match_keywords sees it.
Page(title, description) == Advert(Some(title), description, <<"x">>)

\* AdFactory.create(ad_type, source=html_body, ...) and the get_title() and
\* get_description() of the advertisement: what the selectors find in the
\* body, None where they find no element.
Extract(html_body) ==
    CASE html_body = TitledBody -> Page(<<"S", "Q", "L">>, None)
      [] html_body = DescribedBody -> Page(<<"x">>, Some(<<"s", "q", "l">>))
      [] OTHER -> Advert(None, None, <<"x">>)

RECURSIVE TagFrom(_, _, _, _, _, _)
\* for ad in ads_iterator: match_keywords_for_ad(ad);
\* update_advertisement_keywords(ad.id, matched_keyword_ids)
TagFrom(ad_id, compiled_keywords, db, ads, min_id, max_id) ==
    IF ad_id > Len(ads) THEN db
    ELSE TagFrom(ad_id + 1, compiled_keywords,
                 IF InRange(ad_id, min_id, max_id)
                 THEN [db EXCEPT !.keyword_advertisement =
                          update_advertisement_keywords(
                              @, ad_id,
                              match_keywords_for_ad(compiled_keywords, db,
                                                    Extract(ads[ad_id].html_body)))]
                 ELSE db,
                 ads, min_id, max_id)

\* process_advertisements(min_id, max_id, batch_size): compiles only when
\* self.compiled_keywords is empty; returns 0 when it still is; else tags the
\* advertisements of the range with the compiled keywords of the instance.
process_advertisements(compiled_keywords, db, ads, min_id, max_id) ==
    LET compiled == IF compiled_keywords = <<>> THEN compile_keyword_patterns(db)
                                                ELSE compiled_keywords
        range == {i \in 1..Len(ads) : InRange(i, min_id, max_id)}
    IN  IF compiled = <<>>
        THEN [compiled_keywords |-> compiled, db |-> db, used |-> None, count |-> 0]
        ELSE [compiled_keywords |-> compiled,
              db |-> TagFrom(1, compiled, db, ads, min_id, max_id),
              used |-> IF range = {} THEN None ELSE Some(compiled),
              count |-> Cardinality(range)]

\* run_analysis(min_id, max_id, batch_size, reset_tables): with reset_tables
\* the tables are emptied and the keywords of the configuration file loaded,
\* without it the patterns are compiled from the table; then
\* process_advertisements.
run_analysis(compiled_keywords, db, file, ads, min_id, max_id, reset_tables) ==
    IF reset_tables
    THEN process_advertisements(
             compiled_keywords,
             load_keywords_from_config(reset_keyword_tables(db), file),
             ads, min_id, max_id)
    ELSE process_advertisements(compile_keyword_patterns(db), db, ads, min_id, max_id)

\* AdvertAnalyzer.__init__: self.compiled_keywords = {}
NoAnalyzer == [compiled_keywords |-> <<>>]

\* The parameters of run_analysis besides self.
run_analysis_parameters == {"min_id", "max_id", "batch_size", "reset_tables"}

\* No call made yet by the program that holds the analyzer.
NoAnalysis == [pc |-> "analyze", op |-> "none", calls |-> 0, options |-> <<>>,
               raised |-> "none", used |-> None, count |-> 0]

\* The keywords sections the configuration file may hold when it is read.
ConfigFiles == {<<>>, <<CaseKeywords[1]>>, CaseKeywords}

\* --min-id / --max-id: not given, or an id.
IdOptions == {None, Some(1), Some(2)}

\* analyzer.run_analysis(min_id, max_id, reset_tables=reset_tables) on the
\* analyzer the program holds, the configuration file holding file
Analysis(file, min_id, max_id, reset_tables) ==
    LET run == run_analysis(analyzer.compiled_keywords,
                            Database(keywords, truncated, keyword_advertisement),
                            file, advertisements, min_id, max_id, reset_tables)
    IN  /\ main.pc = "analyze"
        /\ main.calls < MaxCalls
        /\ analyzer' = [analyzer EXCEPT !.compiled_keywords = run.compiled_keywords]
        /\ keywords' = run.db.keywords
        /\ truncated' = run.db.truncated
        /\ keyword_advertisement' = run.db.keyword_advertisement
        /\ main' = [main EXCEPT !.op = "run_analysis", !.calls = @ + 1,
                                !.options = [min_id |-> min_id, max_id |-> max_id,
                                             reset_tables |-> reset_tables],
                                !.raised = "none", !.used = run.used,
                                !.count = run.count]

\* analyzer.run_analysis(min_id=..., max_id=..., reset_tables=...)
RunAnalysis ==
    /\ \E file \in ConfigFiles, min_id \in IdOptions, max_id \in IdOptions,
          reset_tables \in BOOLEAN : Analysis(file, min_id, max_id, reset_tables)
    /\ UNCHANGED <<config, counters, Harvester, self, pc, pass, frag, idx, req,
                   pending, wait, response, advert, advertisements, cand,
                   good_at_start, regexes, stored>>

\* analyzer.run_analysis(): the full refresh, every parameter at its default
\* (no id bound, reset_tables=True)
FullRefresh ==
    /\ \E file \in ConfigFiles : Analysis(file, None, None, TRUE)
    /\ UNCHANGED <<config, counters, Harvester, self, pc, pass, frag, idx, req,
                   pending, wait, response, advert, advertisements, cand,
                   good_at_start, regexes, stored>>

\* analyze_command(args, logger): a new AdvertAnalyzer, the options built from
\* the arguments, analyzer.run_analysis(**analyzer_options); a keyword that
\* run_analysis does not take raises TypeError before its body runs, and
\* `except Exception` logs it.
AnalyzeCommand ==
    \E file \in ConfigFiles, min_id \in IdOptions, max_id \in IdOptions,
       no_reset \in BOOLEAN, include_description \in BOOLEAN :
        LET analyzer_options ==
                [min_id |-> min_id, max_id |-> max_id, batch_size |-> 100,
                 reset_tables |-> ~no_reset,
                 include_description |-> include_description]
            taken == DOMAIN analyzer_options \subseteq run_analysis_parameters
            run == run_analysis(NoAnalyzer.compiled_keywords,
                                Database(keywords, truncated, keyword_advertisement),
                                file, advertisements, min_id, max_id, ~no_reset)
        IN  /\ main.pc = "analyze"
            /\ main.calls < MaxCalls
            /\ keywords' = IF taken THEN run.db.keywords ELSE keywords
            /\ truncated' = IF taken THEN run.db.truncated ELSE truncated
            /\ keyword_advertisement' =
                   IF taken THEN run.db.keyword_advertisement ELSE keyword_advertisement
            /\ main' = [main EXCEPT !.op = "analyze_command", !.calls = @ + 1,
                                    !.options = analyzer_options,
                                    !.raised = IF taken THEN "none" ELSE "TypeError",
                                    !.used = IF taken THEN run.used ELSE None,
                                    !.count = IF taken THEN run.count ELSE 0]
            /\ UNCHANGED <<config, counters, analyzer, Harvester, self, pc, pass, frag,
                           idx, req, pending, wait, response, advert, advertisements,
                           cand, good_at_start, regexes, stored>>

NextAnalyze == RunAnalysis \/ AnalyzeCommand

\* A harvester thread and a program that runs analyses work on one database.
NextMixed == Next \/ FullRefresh

\* ---------------------------------------------------------------- update_command
\* The body of a page in which the selectors find a title, a company, a
\* location and a description.
FullBody == "<h1>x</h1><b>c</b><i>l</i><p>sql</p>"

\* The TEXT columns update_command fills.  A column holds NULL (None) or a
\* string; the empty string is Some(<<>>).
ColumnNames == {"title", "company", "location", "description"}

\* Python truth of an Optional[str]: None and "" are false.
Falsy(value) == IsNone(value) \/ Val(value) = <<>>

\* value or ""
OrEmpty(value) == IF Falsy(value) THEN Some(<<>>) ELSE value

\* get_title(), get_company(), get_location(), get_description() of the
\* advertisement AdFactory.create builds from html_body.
Fields(html_body) ==
    [title |-> Extract(html_body).title,
     company |-> IF html_body = FullBody THEN Some(<<"c">>) ELSE None,
     location |-> IF html_body = FullBody THEN Some(<<"l">>) ELSE None,
     description |-> Extract(html_body).description]

\* A row of advertisements with its TEXT columns.
AdRow(url, status, body, ad_type, columns) ==
    [url |-> url, http_status |-> status, html_body |-> body, ad_type |-> ad_type,
     title |-> columns.title, company |-> columns.company,
     location |-> columns.location, description |-> columns.description]

\* harvest(): title = advert.get_title() or "" ... and the INSERT of the row.
InsertedRow(url, body, ad_type) ==
    AdRow(url, 200, body, ad_type,
          [f \in ColumnNames |-> OrEmpty(Fields(body)[f])])

\* The bodies of the pages harvested in this part of the model.
UpdateBodies == {HtmlBody, TitledBody, FullBody}

\* No update command run yet.
NotUpdated == [pc |-> "update", op |-> "none", calls |-> 0, options |-> <<>>,
             selected |-> {}, updated_count |-> 0]

\* WHERE id >= ? AND id <= ? AND (title IS NULL OR company IS NULL OR
\* location IS NULL OR description IS NULL), the last part without --force.
Selected(table, force, min_id, max_id) ==
    {ad_id \in 1..Len(table) :
        /\ InRange(ad_id, min_id, max_id)
        /\ force \/ \E f \in ColumnNames : IsNone(table[ad_id][f])}

\* if (args.force or not current_title) and title: update_fields.append(...)
UpdateFields(row, force) ==
    {f \in ColumnNames :
        (force \/ Falsy(row[f])) /\ ~Falsy(Fields(row.html_body)[f])}

\* UPDATE advertisements SET <update_fields> WHERE id = ?
UpdatedRow(row, force) ==
    LET new(f) == IF f \in UpdateFields(row, force)
                  THEN Fields(row.html_body)[f] ELSE row[f]
    IN  [row EXCEPT !.title = new("title"), !.company = new("company"),
                    !.location = new("location"),
                    !.description = new("description")]

\* update_command(args, logger): the rows the query selects are re-parsed and
\* updated; the table after the final commit, the ids selected and
\* updated_count.
update_command(table, force, min_id, max_id) ==
    LET selected == Selected(table, force, min_id, max_id)
    IN  [advertisements |->
             [ad_id \in 1..Len(table) |->
                 IF ad_id \in selected THEN UpdatedRow(table[ad_id], force)
                                       ELSE table[ad_id]],
         selected |-> selected,
         updated_count |->
             Cardinality({ad_id \in selected :
                             UpdateFields(table[ad_id], force) # {}})]

\* The loop body of harvest() for a page fetched with status 200 whose URL has
\* no row: the INSERT and the commit.
HarvestStore ==
    /\ main.pc = "update"
    /\ \E url \in URLs, body \in UpdateBodies :
        /\ RowsOf(advertisements, url) = {}
        /\ advertisements' =
               Append(advertisements, InsertedRow(url, body, "StepstoneAdvertisement"))
    /\ UNCHANGED <<config, outside, counters, keyword_advertisement,
                   Harvester, self, pc, pass, frag, idx, req, pending, wait,
                   response, advert, cand, good_at_start, regexes, stored>>

\* crawler.py update [--force] [--min-id N] [--max-id N]
UpdateCommand ==
    /\ main.pc = "update"
    /\ main.calls < MaxCalls
    /\ \E force \in BOOLEAN, min_id \in IdOptions, max_id \in IdOptions :
        LET run == update_command(advertisements, force, min_id, max_id)
        IN  /\ advertisements' = run.advertisements
            /\ main' = [main EXCEPT !.op = "update_command", !.calls = @ + 1,
                                    !.options = [force |-> force, min_id |-> min_id,
                                                 max_id |-> max_id],
                                    !.selected = run.selected,
                                    !.updated_count = run.updated_count]
    /\ UNCHANGED <<config, keywords, analyzer, truncated, counters, keyword_advertisement,
                   Harvester, self, pc, pass, frag, idx, req, pending, wait,
                   response, advert, cand, good_at_start, regexes, stored>>

NextUpdate == HarvestStore \/ UpdateCommand

\* ---------------------------------------------------------------- robots queries
\* What the request for robots.txt may come to: the declaration, a request
\* that raises, an answer with an error status and an error page as its text.
RobotsFetches == {"ok", "raises", "error"}

\* (mutant) the parser is fetched for every query.
get_robot_parser_always(w, refresh, fetch) ==
    IF fetch = "raises"
    THEN [self |-> self[w], gets |-> 1, raised |-> TRUE]
    ELSE [self |-> SetAttr(self[w], "robot_parser",
                           Some(Protego_parse([robots[w] EXCEPT !.fetch = fetch]))),
          gets |-> 1, raised |-> FALSE]

\* _get_robot_parser(refresh): `if not self._robot_parser or refresh` the
\* robots.txt is requested with requests.get and parsed; fetch is how that
\* request ends.  The instance after the call, the requests sent, and whether
\* requests.get raised (nothing is assigned then).
get_robot_parser(w, refresh, fetch) ==
    IF IsNone(Attr(w, "robot_parser")) \/ refresh
    THEN IF fetch = "raises"
         THEN [self |-> self[w], gets |-> 1, raised |-> TRUE]
         ELSE [self |-> SetAttr(self[w], "robot_parser",
                                Some(Protego_parse([robots[w] EXCEPT !.fetch = fetch]))),
               gets |-> 1, raised |-> FALSE]
    ELSE [self |-> self[w], gets |-> 0, raised |-> FALSE]

\* parser.can_fetch(uri, self.AGENT)
can_fetch(parser, uri) == uri \notin parser.disallow

\* The calls a program has made on the harvester and the calls of
\* requests.get for robots.txt they led to.
NoQueries == [pc |-> "queries", op |-> "none", queries |-> 0, refreshes |-> 0,
              gets |-> 0, raised |-> 0, result |-> None]

\* The harvester the queries are made on.
Queried == "w1"

\* The record of one more call.
Asked(op, refresh, call, result) ==
    [main EXCEPT !.op = op,
                 !.queries = IF refresh THEN @ ELSE @ + 1,
                 !.refreshes = IF refresh THEN @ + 1 ELSE @,
                 !.gets = @ + call.gets,
                 !.raised = IF call.raised THEN @ + 1 ELSE @,
                 !.result = IF call.raised THEN None ELSE Some(result)]

\* harvester.can_fetch(uri)
CanFetch ==
    \E uri \in URLs, fetch \in RobotsFetches :
        LET call == get_robot_parser(Queried, FALSE, fetch)
        IN  /\ main.pc = "queries"
            /\ main.queries + main.refreshes < MaxQueries
            /\ Store(Queried, call.self)
            /\ main' = Asked("can_fetch", FALSE, call,
                             IF call.raised THEN FALSE
                             ELSE can_fetch(Val(call.self.robot_parser), uri))
            /\ UNCHANGED <<config, counters, analyzer, truncated, pc, pass, frag, idx,
                           req, pending, wait, response, advert, advertisements,
                           keywords, keyword_advertisement, cand, good_at_start, regexes,
                           stored>>

\* harvester.crawl_delay: the cached property asks the parser only while it
\* has no value.
CrawlDelay ==
    \E fetch \in RobotsFetches :
        LET call == IF "crawl_delay" \in self[Queried].own
                    THEN [self |-> self[Queried], gets |-> 0, raised |-> FALSE]
                    ELSE get_robot_parser(Queried, FALSE, fetch)
            s == IF call.raised \/ "crawl_delay" \in self[Queried].own
                 THEN call.self
                 ELSE SetAttr(call.self, "crawl_delay",
                              crawl_delay(Queried, Val(call.self.robot_parser)))
        IN  /\ main.pc = "queries"
            /\ main.queries + main.refreshes < MaxQueries
            /\ Store(Queried, s)
            /\ main' = Asked("crawl_delay", FALSE, call, s.crawl_delay)
            /\ UNCHANGED <<config, counters, analyzer, truncated, pc, pass, frag, idx,
                           req, pending, wait, response, advert, advertisements,
                           keywords, keyword_advertisement, cand, good_at_start, regexes,
                           stored>>

\* harvester._get_robot_parser(refresh).sitemaps
GetRobotParser ==
    \E refresh \in BOOLEAN, fetch \in RobotsFetches :
        LET call == get_robot_parser(Queried, refresh, fetch)
        IN  /\ main.pc = "queries"
            /\ main.queries + main.refreshes < MaxQueries
            /\ Store(Queried, call.self)
            /\ main' = Asked("sitemaps", refresh, call,
                             IF call.raised THEN FALSE
                             ELSE Val(call.self.robot_parser).sitemaps)
            /\ UNCHANGED <<config, counters, analyzer, truncated, pc, pass, frag, idx,
                           req, pending, wait, response, advert, advertisements,
                           keywords, keyword_advertisement, cand, good_at_start, regexes,
                           stored>>

NextQueries == CanFetch \/ CrawlDelay \/ GetRobotParser

\* ---------------------------------------------------------------- initial states
Answer(status, text) == [status |-> status, text |-> text]

Sitemap1(links) == [status |-> 200, doc |-> "xml", match |-> TRUE, links |-> links]
GoodRoot == [status |-> 200, doc |-> "xml"]
Robots(delay) == [crawl_delay |-> delay, fetch |-> "ok", disallow |-> {}]


\* The state right after the harvesters are constructed: nothing fetched, no
\* instance attribute set, the class attribute _last_request just taken.
InitProgram ==
    /\ Harvester = [last_request |-> 0, cookies |-> None, robot_parser |-> None,
                    headers |-> "default"]
    /\ self = [w \in Workers |->
                  [own |-> {}, last_request |-> 0, cookies |-> None,
                   robot_parser |-> None, crawl_delay |-> 0]]
    /\ pc = [w \in Workers |-> "idle"]
    /\ pass = [w \in Workers |-> 0]
    /\ frag = [w \in Workers |-> 0]
    /\ idx = [w \in Workers |-> 0]
    /\ req = [w \in Workers |-> NoRequest]
    /\ pending = [w \in Workers |-> NoRequest]
    /\ wait = [w \in Workers |-> 0]
    /\ response = [w \in Workers |-> NoResponse]
    /\ advert = [w \in Workers |-> NoAdvert]
    /\ cand = [w \in Workers |-> NoCand]
    /\ counters = [w \in Workers |-> NoCounters]
    /\ analyzer = NoAnalyzer
    /\ truncated = 0
    /\ good_at_start = [w \in Workers |-> {}]
    /\ regexes = [w \in Workers |-> {}]
    /\ stored = [w \in Workers |-> {}]

\* harvest() called directly on a store without keywords, no write fails.
Direct ==
    /\ main = NoMain
    /\ portals = <<>>
    /\ keywords = <<>>
    /\ keyword_advertisement = {}
    /\ faults = [u \in URLs |-> "none"]
    /\ matches = [u \in URLs |-> {}]

StepStone == "StepStoneHarvester"
Karriere == "KarriereHarvester"

\* What one content URL may answer, first request and retry, when the server
\* answers the same way every time.
Behaviour(first, retry) == [first |-> {first}, retry |-> {retry}]
Steady(a) == Behaviour(a, a)
Behaviours ==
    {Steady(Answer(200, HtmlBody)),
     Steady(Answer(200, BlankBody)),
     Steady(Answer(200, EmptyBody)),
     Steady(Answer(410, ErrorBody)),
     Steady(Answer(404, ErrorBody)),
     Behaviour(Answer(503, ErrorBody), Answer(200, HtmlBody)),
     Behaviour(Answer(500, ErrorBody), Answer(504, ErrorBody)),
     Behaviour(Answer(502, ErrorBody), Answer(410, ErrorBody))}

\* Stores a pass may start from: empty, or holding a row another tool wrote.
InitialStores == {<<>>, <<Row("u1", 404, HtmlBody, "Advertisement")>>}

\* Two portals harvested concurrently whose sitemaps list the same two URLs;
\* the servers may answer differently every time.
Init ==
    /\ InitProgram
    /\ Direct
    /\ engine = [w \in Workers |-> IF w = "w1" THEN StepStone ELSE Karriere]
    /\ requests_per_minute = [w \in Workers |-> IF w = "w1" THEN 60 ELSE 30]
    /\ retry_timeout = [w \in Workers |-> 5]
    /\ passes = [w \in Workers |-> 1]
    /\ robots = [w \in Workers |-> Robots(None)]
    /\ sitemaps = [w \in Workers |->
                      [root |-> GoodRoot,
                       nested |-> IF w = "w1" THEN <<Sitemap1(<<"u1", "u2">>)>>
                                              ELSE <<Sitemap1(<<"u2", "u1">>)>>]]
    /\ site = [u \in URLs |->
                  [first |-> {Answer(200, HtmlBody), Answer(503, ErrorBody)},
                   retry |-> {Answer(200, HtmlBody), Answer(504, ErrorBody)}]]
    /\ jars = CookieJars
    /\ advertisements = <<>>

Spec == Init /\ [][Next]_vars

\* One portal harvested MaxPasses times in a row, its sitemap listing three
\* URLs that answer the same way in every pass.
InitSeq ==
    /\ InitProgram
    /\ Direct
    /\ engine \in [Workers -> {StepStone, Karriere}]
    /\ engine["w2"] = Karriere
    /\ requests_per_minute = [w \in Workers |-> 60]
    /\ retry_timeout = [w \in Workers |-> 5]
    /\ passes = [w \in Workers |-> IF w = "w1" THEN MaxPasses ELSE 0]
    /\ robots = [w \in Workers |-> Robots(None)]
    /\ sitemaps = [w \in Workers |->
                      [root |-> GoodRoot,
                       nested |-> <<Sitemap1(<<"u1", "u2", "u3">>)>>]]
    /\ site \in [URLs -> Behaviours]
    /\ jars = {{}}
    /\ advertisements \in InitialStores

SpecSeq == InitSeq /\ [][Next]_vars

\* One portal, one pass, every configured request budget and declared crawl
\* delay of the model.
BudgetsPerMinute == {30, 60}
DeclaredDelays == {None, Some(0), Some(1), Some(2)}

InitRate ==
    /\ InitProgram
    /\ Direct
    /\ engine \in [Workers -> {StepStone, Karriere}]
    /\ engine["w2"] = Karriere
    /\ requests_per_minute \in [Workers -> BudgetsPerMinute]
    /\ requests_per_minute["w2"] = 60
    /\ retry_timeout \in [Workers -> {0, 5}]
    /\ retry_timeout["w2"] = 5
    /\ passes = [w \in Workers |-> IF w = "w1" THEN 1 ELSE 0]
    /\ robots \in [Workers -> {Robots(d) : d \in DeclaredDelays}]
    /\ robots["w2"] = Robots(None)
    /\ sitemaps = [w \in Workers |->
                      [root |-> GoodRoot,
                       nested |-> <<Sitemap1(<<"u1", "u2">>)>>]]
    /\ site = [u \in URLs |->
                  [first |-> {Answer(200, HtmlBody), Answer(503, ErrorBody)},
                   retry |-> {Answer(200, HtmlBody), Answer(503, ErrorBody)}]]
    /\ jars = CookieJars
    /\ advertisements = <<>>

SpecRate == InitRate /\ [][Next]_vars

\* The stages at which storing one advertisement may fail: get_title() raises,
\* the INSERT of the row fails, an INSERT of a keyword match fails.
Faults == {"none", "extract", "insert", "tags"}

\* One portal, one pass over two URLs; a request may raise, the extraction or
\* a write to the store may fail.
InitFault ==
    /\ InitProgram
    /\ main = NoMain
    /\ portals = <<>>
    /\ keywords = TwoKeywords
    /\ keyword_advertisement = {}
    /\ faults \in [URLs -> Faults]
    /\ faults["u3"] = "none"
    /\ matches \in [URLs -> {{}, {1, 2}}]
    /\ matches["u3"] = {}
    /\ engine \in [Workers -> {StepStone, Karriere}]
    /\ engine["w2"] = Karriere
    /\ requests_per_minute = [w \in Workers |-> 60]
    /\ retry_timeout = [w \in Workers |-> 5]
    /\ passes = [w \in Workers |-> IF w = "w1" THEN 1 ELSE 0]
    /\ robots = [w \in Workers |-> Robots(None)]
    /\ sitemaps = [w \in Workers |->
                      [root |-> GoodRoot,
                       nested |-> <<Sitemap1(<<"u1", "u2">>)>>]]
    /\ site \in [URLs -> {Steady(Answer(200, HtmlBody)),
                          Steady(Answer(0, ConnectionError)),
                          Behaviour(Answer(503, ErrorBody), Answer(200, HtmlBody))}]
    /\ site["u3"] = Steady(Answer(200, HtmlBody))
    /\ jars = {{}}
    /\ advertisements = <<>>

SpecFault == InitFault /\ [][Next]_vars

\* A server whose responses set one cookie or another, or none.
SessionJars == {{}, {"sid"}, {"lang"}}

\* One portal, one pass over two URLs, every response free to set a cookie.
InitCookies ==
    /\ InitProgram
    /\ Direct
    /\ engine \in [Workers -> {StepStone, Karriere}]
    /\ engine["w2"] = Karriere
    /\ requests_per_minute = [w \in Workers |-> 60]
    /\ retry_timeout = [w \in Workers |-> 5]
    /\ passes = [w \in Workers |-> IF w = "w1" THEN 1 ELSE 0]
    /\ robots = [w \in Workers |-> Robots(None)]
    /\ sitemaps = [w \in Workers |->
                      [root |-> GoodRoot,
                       nested |-> <<Sitemap1(<<"u1", "u2">>)>>]]
    /\ site = [u \in URLs |->
                  [first |-> {Answer(200, HtmlBody), Answer(503, ErrorBody)},
                   retry |-> {Answer(200, HtmlBody)}]]
    /\ jars = SessionJars
    /\ advertisements = <<>>

SpecCookies == InitCookies /\ [][Next]_vars

\* The engines that are classes of the module without a get_next_link of
\* their own.
UnimplementedEngines == {"MonsterHarvester", "IndeedHarvester"}

\* harvest() called on a harvester of an engine without get_next_link, next
\* to a harvester of a working engine; the store holds two keywords.
InitUnimplemented ==
    /\ InitProgram
    /\ main = NoMain
    /\ portals = <<>>
    /\ keywords = TwoKeywords
    /\ keyword_advertisement = {}
    /\ faults = [u \in URLs |-> "none"]
    /\ matches = [u \in URLs |-> {1}]
    /\ engine \in [Workers -> UnimplementedEngines \cup {StepStone, Karriere}]
    /\ engine["w1"] \in UnimplementedEngines
    /\ engine["w2"] \in {StepStone, Karriere}
    /\ requests_per_minute = [w \in Workers |-> 60]
    /\ retry_timeout = [w \in Workers |-> 5]
    /\ passes = [w \in Workers |-> 1]
    /\ robots = [w \in Workers |-> Robots(None)]
    /\ sitemaps = [w \in Workers |->
                      [root |-> GoodRoot,
                       nested |-> <<Sitemap1(<<"u1", "u2">>)>>]]
    /\ site = [u \in URLs |->
                  [first |-> {Answer(200, HtmlBody), Answer(503, ErrorBody)},
                   retry |-> {Answer(200, HtmlBody)}]]
    /\ jars = {{}}
    /\ advertisements = <<>>

SpecUnimplemented == InitUnimplemented /\ [][Next]_vars

\* The keywords tables of a store in which at most one pattern does not
\* compile.
Paren == Keyword("Paren", InvalidPattern, FALSE)
KeywordTables == {TwoKeywords,
                  <<Keyword("Python", "python", FALSE), Paren>>,
                  <<Paren, Keyword("Python", "python", FALSE)>>}

\* One portal, one pass over two URLs that answer 200, at once or after the
\* retry; the keywords of the store may hold a pattern that does not compile.
InitCompile ==
    /\ InitProgram
    /\ main = NoMain
    /\ portals = <<>>
    /\ keywords \in KeywordTables
    /\ keyword_advertisement = {}
    /\ faults = [u \in URLs |-> "none"]
    /\ matches \in [URLs -> {{}, {1}, {1, 2}}]
    /\ matches["u3"] = {}
    /\ engine \in [Workers -> {StepStone, Karriere}]
    /\ engine["w2"] = Karriere
    /\ requests_per_minute = [w \in Workers |-> 60]
    /\ retry_timeout = [w \in Workers |-> 5]
    /\ passes = [w \in Workers |-> IF w = "w1" THEN 1 ELSE 0]
    /\ robots = [w \in Workers |-> Robots(None)]
    /\ sitemaps = [w \in Workers |->
                      [root |-> GoodRoot,
                       nested |-> <<Sitemap1(<<"u1", "u2">>)>>]]
    /\ site \in [URLs -> {Steady(Answer(200, HtmlBody)),
                          Behaviour(Answer(503, ErrorBody), Answer(200, HtmlBody))}]
    /\ site["u3"] = Steady(Answer(200, HtmlBody))
    /\ jars = {{}}
    /\ advertisements = <<>>

SpecCompile == InitCompile /\ [][Next]_vars

\* What the request for one sitemap fragment may come to: a sitemap with its
\* links, a 404, an empty body, malformed XML, a request that raises.
FragmentKinds(links) ==
    {Sitemap1(links),
     [status |-> 404, doc |-> ErrorBody, match |-> TRUE, links |-> <<>>],
     [status |-> 200, doc |-> EmptyBody, match |-> TRUE, links |-> <<>>],
     [status |-> 200, doc |-> "<urlset", match |-> TRUE, links |-> <<>>],
     [status |-> 0, doc |-> ConnectionError, match |-> TRUE, links |-> <<>>]}

\* One portal, one pass, two sitemap fragments of which any may be bad; every
\* content page answers 200, the first one after a retry.
InitEnum ==
    /\ InitProgram
    /\ Direct
    /\ engine \in [Workers -> {StepStone, Karriere}]
    /\ engine["w2"] = Karriere
    /\ requests_per_minute = [w \in Workers |-> 60]
    /\ retry_timeout = [w \in Workers |-> 5]
    /\ passes = [w \in Workers |-> IF w = "w1" THEN 1 ELSE 0]
    /\ robots = [w \in Workers |-> Robots(None)]
    /\ \E f1 \in FragmentKinds(<<"u1">>), f2 \in FragmentKinds(<<"u2", "u3">>) :
           sitemaps = [w \in Workers |-> [root |-> GoodRoot, nested |-> <<f1, f2>>]]
    /\ site = [u \in URLs |->
                  IF u = "u1" THEN Behaviour(Answer(503, ErrorBody), Answer(200, HtmlBody))
                              ELSE Steady(Answer(200, HtmlBody))]
    /\ jars = CookieJars
    /\ advertisements = <<>>

SpecEnum == InitEnum /\ [][Next]_vars


\* One portal, one pass, the robots.txt of the portal good or not.
InitRobots ==
    /\ InitProgram
    /\ Direct
    /\ engine \in [Workers -> {StepStone, Karriere}]
    /\ engine["w2"] = Karriere
    /\ requests_per_minute = [w \in Workers |-> 60]
    /\ retry_timeout = [w \in Workers |-> 5]
    /\ passes = [w \in Workers |-> IF w = "w1" THEN 1 ELSE 0]
    /\ \E f \in RobotsFetches, d \in {None, Some(2)} :
           robots = [w \in Workers |-> [crawl_delay |-> d, fetch |-> f, disallow |-> {}]]
    /\ sitemaps = [w \in Workers |->
                      [root |-> GoodRoot,
                       nested |-> <<Sitemap1(<<"u1", "u2">>)>>]]
    /\ site = [u \in URLs |->
                  [first |-> {Answer(200, HtmlBody), Answer(503, ErrorBody)},
                   retry |-> {Answer(200, HtmlBody)}]]
    /\ jars = CookieJars
    /\ advertisements = <<>>

SpecRobots == InitRobots /\ [][Next]_vars

\* The engine names a portal of the configuration may carry; MonsterHarvester
\* is a class of the module that the factory does not register.
Monster == "MonsterHarvester"
PortalLists == {<<StepStone, Karriere>>, <<StepStone, Monster>>, <<Monster, Karriere>>}

\* harvest_command on a configuration of two portals and two keywords; the
\* sitemap of each portal lists one URL, whose request may raise.
InitPool ==
    /\ InitProgram
    /\ main = [NoMain EXCEPT !.pc = "start", !.keywords = TwoKeywords]
    /\ portals \in PortalLists
    /\ keywords = <<>>
    /\ keyword_advertisement = {}
    /\ faults = [u \in URLs |-> "none"]
    /\ matches = [u \in URLs |-> IF u = "u1" THEN {1} ELSE {}]
    /\ engine = [w \in Workers |->
                    LET name == portals[IF w = "w1" THEN 1 ELSE 2]
                    IN  IF name \in RegisteredEngines THEN name ELSE Karriere]
    /\ requests_per_minute = [w \in Workers |-> 60]
    /\ retry_timeout = [w \in Workers |-> 0]
    /\ passes = [w \in Workers |-> 1]
    /\ robots = [w \in Workers |-> Robots(None)]
    /\ sitemaps = [w \in Workers |->
                      [root |-> GoodRoot,
                       nested |-> <<Sitemap1(IF w = "w1" THEN <<"u1">> ELSE <<"u2">>)>>]]
    /\ site \in [URLs -> {Steady(Answer(200, HtmlBody)),
                          Steady(Answer(0, ConnectionError)),
                          Behaviour(Answer(503, ErrorBody), Answer(200, HtmlBody))}]
    /\ site["u3"] = Steady(Answer(200, HtmlBody))
    /\ jars = {{}}
    /\ advertisements = <<>>

SpecPool == InitPool /\ [][NextPool]_vars

\* A database of two stored advertisements, no keyword and no tag yet, on
\* which keywords are inserted and advertisements tagged again.
InitKeywords ==
    /\ InitProgram
    /\ main = NoCalls
    /\ portals = <<>>
    /\ keywords = <<>>
    /\ keyword_advertisement = {}
    /\ faults = [u \in URLs |-> "none"]
    /\ matches = [u \in URLs |-> {}]
    /\ engine = [w \in Workers |-> StepStone]
    /\ requests_per_minute = [w \in Workers |-> 60]
    /\ retry_timeout = [w \in Workers |-> 5]
    /\ passes = [w \in Workers |-> 0]
    /\ robots = [w \in Workers |-> Robots(None)]
    /\ sitemaps = [w \in Workers |-> [root |-> GoodRoot, nested |-> <<>>]]
    /\ site = [u \in URLs |-> Steady(Answer(200, HtmlBody))]
    /\ jars = {{}}
    /\ advertisements = <<Row("u1", 200, HtmlBody, "StepstoneAdvertisement"),
                          Row("u2", 200, HtmlBody, "StepstoneAdvertisement")>>

SpecKeywords == InitKeywords /\ [][NextKeywords]_vars

MatchTables == {CaseKeywords, <<CaseKeywords[1]>>, <<CaseKeywords[2]>>,
                <<Keyword("L s", <<"L", " ", "s">>, TRUE), CaseKeywords[1]>>}

\* A store with compiled keywords on which match_keywords is called for
\* advertisements with and without title and description.
InitMatch ==
    /\ InitProgram
    /\ main = NoMatch
    /\ portals = <<>>
    /\ keywords \in MatchTables
    /\ keyword_advertisement = {}
    /\ faults = [u \in URLs |-> "none"]
    /\ matches = [u \in URLs |-> {}]
    /\ engine = [w \in Workers |-> StepStone]
    /\ requests_per_minute = [w \in Workers |-> 60]
    /\ retry_timeout = [w \in Workers |-> 5]
    /\ passes = [w \in Workers |-> 0]
    /\ robots = [w \in Workers |-> Robots(None)]
    /\ sitemaps = [w \in Workers |-> [root |-> GoodRoot, nested |-> <<>>]]
    /\ site = [u \in URLs |-> Steady(Answer(200, HtmlBody))]
    /\ jars = {{}}
    /\ advertisements = <<>>

SpecMatch == InitMatch /\ [][NextMatch]_vars

\* A database of two stored advertisements, one keyword left by an earlier
\* program, on which analyses are run.
InitAnalyze ==
    /\ InitProgram
    /\ main = NoAnalysis
    /\ portals = <<>>
    /\ keywords = <<CaseKeywords[2]>>
    /\ keyword_advertisement = {}
    /\ faults = [u \in URLs |-> "none"]
    /\ matches = [u \in URLs |-> {}]
    /\ engine = [w \in Workers |-> StepStone]
    /\ requests_per_minute = [w \in Workers |-> 60]
    /\ retry_timeout = [w \in Workers |-> 5]
    /\ passes = [w \in Workers |-> 0]
    /\ robots = [w \in Workers |-> Robots(None)]
    /\ sitemaps = [w \in Workers |-> [root |-> GoodRoot, nested |-> <<>>]]
    /\ site = [u \in URLs |-> Steady(Answer(200, HtmlBody))]
    /\ jars = {{}}
    /\ advertisements =
           <<Row("u1", 200, TitledBody, "StepstoneAdvertisement"),
             Row("u2", 200, DescribedBody, "StepstoneAdvertisement")>>

SpecAnalyze == InitAnalyze /\ [][NextAnalyze]_vars

\* A harvester just constructed, whose robots.txt disallows one URL, asked
\* about its robots declaration.
InitQueries ==
    /\ InitProgram
    /\ main = NoQueries
    /\ portals = <<>>
    /\ keywords = <<>>
    /\ keyword_advertisement = {}
    /\ faults = [u \in URLs |-> "none"]
    /\ matches = [u \in URLs |-> {}]
    /\ engine = [w \in Workers |-> StepStone]
    /\ requests_per_minute = [w \in Workers |-> 60]
    /\ retry_timeout = [w \in Workers |-> 5]
    /\ passes = [w \in Workers |-> 0]
    /\ \E d \in {None, Some(2)} :
           robots = [w \in Workers |-> [Robots(d) EXCEPT !.disallow = {"u1"}]]
    /\ sitemaps = [w \in Workers |-> [root |-> GoodRoot, nested |-> <<>>]]
    /\ site = [u \in URLs |-> Steady(Answer(200, HtmlBody))]
    /\ jars = {{}}
    /\ advertisements = <<>>

SpecQueries == InitQueries /\ [][NextQueries]_vars

\* A harvest pass over two URLs and analyses run meanwhile on the same
\* database.  The store holds one advertisement, the row of an empty answer
\* for the first URL of the sitemap, and the keyword x, which is found in the
\* body of the pages the portal serves (they have neither title nor
\* description); the keywords of the configuration file are not.
InitMixed ==
    /\ InitProgram
    /\ main = NoAnalysis
    /\ portals = <<>>
    /\ keywords = <<Keyword("x", <<"x">>, FALSE)>>
    /\ keyword_advertisement = {}
    /\ faults = [u \in URLs |-> "none"]
    /\ matches = [u \in URLs |-> {1}]
    /\ engine = [w \in Workers |-> StepStone]
    /\ requests_per_minute = [w \in Workers |-> 60]
    /\ retry_timeout = [w \in Workers |-> 5]
    /\ passes = [w \in Workers |-> IF w = "w1" THEN 1 ELSE 0]
    /\ robots = [w \in Workers |-> Robots(None)]
    /\ sitemaps = [w \in Workers |->
                      [root |-> GoodRoot, nested |-> <<Sitemap1(<<"u1", "u2">>)>>]]
    /\ site = [u \in URLs |->
                  IF u = "u1" THEN Steady(Answer(200, HtmlBody))
                  ELSE Behaviour(Answer(503, ErrorBody), Answer(200, HtmlBody))]
    /\ jars = {{}}
    /\ advertisements = <<Row("u3", 200, TitledBody, "StepstoneAdvertisement"),
                          Row("u1", 200, EmptyBody, "StepstoneAdvertisement")>>

SpecMixed == InitMixed /\ [][NextMixed]_vars

\* One pass of one portal whose sitemap lists two URLs, each answering in
\* any of the ways of the model.
InitStatuses ==
    /\ InitProgram
    /\ Direct
    /\ engine \in [Workers -> {StepStone, Karriere}]
    /\ engine["w2"] = Karriere
    /\ requests_per_minute = [w \in Workers |-> 60]
    /\ retry_timeout = [w \in Workers |-> 5]
    /\ passes = [w \in Workers |-> IF w = "w1" THEN 1 ELSE 0]
    /\ robots = [w \in Workers |-> Robots(None)]
    /\ sitemaps = [w \in Workers |->
                      [root |-> GoodRoot, nested |-> <<Sitemap1(<<"u1", "u2">>)>>]]
    /\ site \in [URLs -> Behaviours]
    /\ site["u3"] = Steady(Answer(200, HtmlBody))
    /\ jars = {{}}
    /\ advertisements \in InitialStores

SpecStatuses == InitStatuses /\ [][Next]_vars

\* The thread of the harvester is scheduled and time passes: every request
\* returns or raises, every sleep ends.
SpecStatusesFair ==
    SpecStatuses /\ WF_vars(Tick) /\ \A w \in Workers : WF_vars(Step(w))

\* One harvester, one pass over a sitemap of two URLs, whatever their answers;
\* robots.txt may disallow the first of them for the crawler's agent.
InitDisallow ==
    /\ InitProgram
    /\ Direct
    /\ engine \in [Workers -> {StepStone, Karriere}]
    /\ engine["w2"] = Karriere
    /\ requests_per_minute = [w \in Workers |-> 60]
    /\ retry_timeout = [w \in Workers |-> 5]
    /\ passes = [w \in Workers |-> IF w = "w1" THEN 1 ELSE 0]
    /\ \E d \in {{}, {"u1"}} :
           robots = [w \in Workers |-> [Robots(None) EXCEPT !.disallow = d]]
    /\ sitemaps = [w \in Workers |->
                      [root |-> GoodRoot, nested |-> <<Sitemap1(<<"u1", "u2">>)>>]]
    /\ site \in [URLs -> Behaviours]
    /\ site["u3"] = Steady(Answer(200, HtmlBody))
    /\ jars = {{}}
    /\ advertisements = <<>>

SpecDisallow == InitDisallow /\ [][Next]_vars

\* A database that is empty or holds one row written before the TEXT columns
\* were filled (all NULL, or only the title set), into which pages are
\* harvested and on which the update command is run.
InitUpdate ==
    /\ InitProgram
    /\ main = NotUpdated
    /\ portals = <<>>
    /\ keywords = <<>>
    /\ keyword_advertisement = {}
    /\ faults = [u \in URLs |-> "none"]
    /\ matches = [u \in URLs |-> {}]
    /\ engine = [w \in Workers |-> StepStone]
    /\ requests_per_minute = [w \in Workers |-> 60]
    /\ retry_timeout = [w \in Workers |-> 5]
    /\ passes = [w \in Workers |-> 0]
    /\ robots = [w \in Workers |-> Robots(None)]
    /\ sitemaps = [w \in Workers |-> [root |-> GoodRoot, nested |-> <<>>]]
    /\ site = [u \in URLs |-> Steady(Answer(200, HtmlBody))]
    /\ jars = {{}}
    /\ advertisements \in
           {<<>>,
            <<AdRow("u1", 200, FullBody, "StepstoneAdvertisement",
                    [f \in ColumnNames |-> None])>>,
            <<AdRow("u1", 200, FullBody, "StepstoneAdvertisement",
                    [f \in ColumnNames |->
                        IF f = "title" THEN Some(<<"o", "l", "d">>) ELSE None])>>}

SpecUpdate == InitUpdate /\ [][NextUpdate]_vars

\* Threads are scheduled fairly and time passes.
SpecPoolFair ==
    SpecPool /\ WF_vars(Tick) /\ \A w \in Workers : WF_vars(Step(w))

\* ---------------------------------------------------------------- properties
\* C1: in every reachable state no two rows of the advertisements table have
\* the same url, also when two workers enumerate the same URL and both pass
\* the exists check and the SELECT before either inserts.
UrlUnique ==
    \A i, j \in 1..Len(advertisements) :
        i # j => advertisements[i].url # advertisements[j].url

\* Two workers raced for one URL: one inserted the row, the INSERT of the
\* other was refused by the store.
UrlUniqueWitness ==
    \E w, v \in Workers :
        /\ w # v
        /\ cand[w].error
        /\ cand[v].row # 0
        /\ cand[v].url = cand[w].url

\* C2: with the store kept between the runs and every URL answering the same
\* way, a second (or later) pass over the same URL set inserts no row.
RecrawlStoresNothing == \A w \in Workers : pass[w] >= 2 => stored[w] = {}

\* A second pass has run to its end over a store the first pass filled, and
\* it fetched its last candidate again.
RecrawlWitness ==
    \E w \in Workers :
        /\ pass[w] = 2
        /\ pc[w] = "idle"
        /\ Len(advertisements) = 3
        /\ cand[w].tries > 0

\* A content request of worker w is sent in this step.
ContentSent(w) == cand'[w].tries > cand[w].tries

\* advertisement_exists answers true exactly for the URLs that have a
\* harvested row.
ExistsExact ==
    \A u \in URLs : advertisement_exists(advertisements, u) <=> Harvested(advertisements, u)

\* No content request goes to a URL that had a harvested row when the pass
\* began.
NoRefetch ==
    \A w \in Workers : ContentSent(w) => cand[w].url \notin good_at_start[w]

\* C3: a URL whose stored row has status 200 and a body that is not empty (nor
\* only whitespace) is never fetched again in a later pass, and
\* advertisement_exists is true for exactly the URLs with such a row.
HarvestedNeverRefetched == [](ExistsExact) /\ [][NoRefetch]_vars

\* In its second pass the worker has passed over a URL harvested in the first
\* pass, while the store also holds a row with an empty or blank body for
\* which advertisement_exists is false.
HarvestedWitness ==
    \E w \in Workers :
        /\ pass[w] = 2
        /\ cand[w].known
        /\ cand[w].url \in good_at_start[w]
        /\ \E u \in URLs : /\ RowsOf(advertisements, u) # {}
                           /\ ~advertisement_exists(advertisements, u)

\* A request of worker w leaves _get for the network in this step.
Sent(w) == pc[w] \in {"get", "sleep"} /\ pc'[w] \notin {"get", "sleep"}

\* _get starts to sleep in this step.
SleepStarts(w) == pc[w] = "get" /\ pc'[w] = "sleep"

\* C4: two consecutive requests of one source are at least crawl_delay apart;
\* _get sleeps exactly when last_request + crawl_delay > now, for the missing
\* time, and sets the last-request timestamp as it sends.
Throttle ==
    \A w \in Workers :
        /\ Sent(w) =>
              /\ "crawl_delay" \in self[w].own
              /\ "last_request" \in self[w].own =>
                     self[w].last_request >= self[w].crawl_delay
              /\ pc[w] = "get" => NowAge(w) >= self[w].crawl_delay
              /\ "last_request" \in self'[w].own
              /\ self'[w].last_request = 0
        /\ SleepStarts(w) =>
              /\ NowAge(w) < self[w].crawl_delay
              /\ wait'[w] = self[w].crawl_delay - NowAge(w)
              /\ wait'[w] > 0

RateLimiterMonotone == [][Throttle]_vars

\* A second request of the source came before the delay was over: _get sleeps
\* for the time that is missing.
RateLimiterWitness ==
    \E w \in Workers :
        /\ pc[w] = "sleep"
        /\ wait[w] > 0
        /\ "last_request" \in self[w].own
        /\ self[w].last_request < self[w].crawl_delay

\* The robots.txt of the source of w is fetched in this step.
RobotsFetched(w) ==
    "robot_parser" \notin self[w].own /\ "robot_parser" \in self'[w].own

\* The request sent in this step went through the throttle of _get.
Throttled(w) ==
    /\ "crawl_delay" \in self[w].own
    /\ pc[w] = "get" => NowAge(w) >= self[w].crawl_delay
    /\ pc[w] = "sleep" => wait[w] = 0
    /\ "last_request" \in self'[w].own
    /\ self'[w].last_request = 0

\* C5 as stated: every HTTP request, the robots.txt request included, passes
\* the throttle and updates the last-request timestamp.
EveryRequestThrottled ==
    [][\A w \in Workers :
          /\ Sent(w) => Throttled(w)
          /\ RobotsFetched(w) => /\ "last_request" \in self'[w].own
                                 /\ self'[w].last_request = 0]_vars

\* C5: the content, sitemap and cookie-bootstrap requests pass the throttle of
\* _get and update the last-request timestamp; the robots.txt request is made
\* with requests.get directly, is not delayed and leaves the timestamp alone.
RequestsButRobotsThrottled ==
    [][\A w \in Workers :
          /\ Sent(w) => /\ req[w].kind \in {"content", "sitemap", "bootstrap"}
                        /\ Throttled(w)
          /\ response'[w] # response[w] /\ response'[w] # NoResponse => Sent(w)
          /\ RobotsFetched(w) =>
                 /\ ~Sent(w)
                 /\ pc[w] \notin {"sleep"}
                 /\ wait'[w] = wait[w]
                 /\ ("last_request" \in self'[w].own) = ("last_request" \in self[w].own)
                 /\ self'[w].last_request = self[w].last_request]_vars

\* The robots.txt has been fetched while no request has gone through _get
\* yet and no timestamp has been set; the first request of _get, for a
\* sitemap, is held back by the throttle.
RobotsWitness ==
    \E w \in Workers :
        /\ "robot_parser" \in self[w].own
        /\ "last_request" \notin self[w].own
        /\ req[w].kind = "sitemap"
        /\ pc[w] = "sleep"
        /\ wait[w] > 0

\* C6: the crawl delay of a source is the larger of 60 / requests_per_minute
\* and the delay its robots.txt declares for the agent (0 when it declares
\* none).
CrawlDelayIsMax ==
    \A w \in Workers :
        "crawl_delay" \in self[w].own =>
            LET d == self[w].crawl_delay
                declared == IF robots[w].crawl_delay = None THEN 0
                            ELSE robots[w].crawl_delay[1]
            IN  /\ d * requests_per_minute[w] >= 60
                /\ d >= declared
                /\ d * requests_per_minute[w] = 60 \/ d = declared

\* Both cases have happened: a declared delay above the budget's, and a
\* budget delay above the declared one.
CrawlDelayWitness ==
    \E w \in Workers :
        /\ "crawl_delay" \in self[w].own
        /\ requests_per_minute[w] = 30
        /\ robots[w].crawl_delay = Some(1)
        /\ self[w].crawl_delay = 2

\* What a harvester instance sees of its own crawl state.
CrawlState(v) ==
    [last_request |-> Attr(v, "last_request"),
     cookies |-> Attr(v, "cookies"),
     robot_parser |-> Attr(v, "robot_parser"),
     headers |-> Attr(v, "headers"),
     crawl_delay |-> IF "crawl_delay" \in self[v].own THEN Some(self[v].crawl_delay)
                                                      ELSE None,
     wait |-> wait[v]]

\* C7: with harvester instances running concurrently, no step of one instance
\* changes the last-request timestamp, the cookie jar, the cached robots
\* parser, the headers or the crawl delay of another, nor makes another wait.
Isolation ==
    [][\A w \in Workers : Step(w) =>
           \A v \in Workers \ {w} : CrawlState(v)' = CrawlState(v)]_vars

\* Both instances have sent requests and hold different timestamps, cookie
\* jars and crawl delays.
IsolationWitness ==
    \E w, v \in Workers :
        /\ "last_request" \in self[w].own
        /\ "last_request" \in self[v].own
        /\ self[w].last_request # self[v].last_request
        /\ Truthy(Attr(w, "cookies"))
        /\ ~Truthy(Attr(v, "cookies"))
        /\ "crawl_delay" \in self[w].own
        /\ "crawl_delay" \in self[v].own
        /\ self[w].crawl_delay # self[v].crawl_delay

\* C8: a candidate URL is requested at most twice in a pass; the second
\* request is made only after a first answer of 500, 502, 503 or 504, never
\* after a 410 or another non-200 answer, and follows a single retry sleep.
AtMostOneRetry ==
    \A w \in Workers :
        /\ cand[w].tries <= 2
        /\ cand[w].sleeps <= 1
        /\ cand[w].tries = 2 => /\ cand[w].first \in {500, 502, 503, 504}
                               /\ cand[w].sleeps = 1
        /\ cand[w].first \notin {0, 500, 502, 503, 504} => /\ cand[w].tries = 1
                                                          /\ cand[w].sleeps = 0

\* A URL that first answered 500 has been retried, answered 504 and was
\* given up; the pass goes on.
AtMostOneRetryWitness ==
    \E w \in Workers :
        /\ cand[w].first = 500
        /\ cand[w].tries = 2
        /\ cand[w].done
        /\ cand[w].row = 0
        /\ pc[w] = "candidate"

SecondIsGone ==
    /\ \A u \in {"u1", "u3"} : \A a \in site[u].first : a.status = 200
    /\ \A a \in site["u2"].first : a.status = 410

\* C10: with three enumerated URLs of which only the second answers 410, a
\* pass over an empty store stores exactly two advertisements, the first and
\* the third, and a repeated pass leaves the row count at 2.
GoneSkipsOnlyItself ==
    \A w \in Workers :
        (/\ SecondIsGone
         /\ pass[w] >= 1
         /\ pc[w] = "idle"
         /\ \A i \in 1..Len(advertisements) : advertisements[i].http_status = 200) =>
            /\ Len(advertisements) = 2
            /\ advertisements[1].url = "u1"
            /\ advertisements[2].url = "u3"
            /\ pass[w] = 1 => stored[w] = {1, 2}
            /\ pass[w] >= 2 => stored[w] = {}

\* The pass has been repeated and the store holds the two rows.
GoneWitness ==
    \E w \in Workers :
        /\ SecondIsGone
        /\ pass[w] = 2
        /\ pc[w] = "idle"
        /\ Len(advertisements) = 2
        /\ advertisements[2].url = "u3"
        /\ advertisements[2].http_status = 200

\* C11 as stated: when the processing of a candidate fails at any stage, the
\* HTTP call raising included, the pass goes on: a pass is over only when the
\* enumerator has yielded all its links.
EveryCandidateProcessed ==
    \A w \in Workers :
        (pc[w] = "idle" /\ pass[w] >= 1) => frag[w] > Len(sitemaps[w].nested)

\* The keyword ids stored for an advertisement row.
TagsOf(id) == {k \in 1..Len(keywords) : <<k, id>> \in keyword_advertisement}

\* Every tag belongs to a stored row, and every stored row has exactly the
\* tags of the keyword ids matched for it (none when the matching raised).
RowAndTagsTogether ==
    /\ \A t \in keyword_advertisement : t[2] \in 1..Len(advertisements)
    /\ \A id \in 1..Len(advertisements) :
           LET u == advertisements[id].url
           IN  TagsOf(id) = IF faults[u] = "extract" THEN {}
                            ELSE matches[u] \cap 1..Len(keywords)
    /\ \A w \in Workers :
           (cand[w].done /\ cand[w].row = 0 /\ cand[w].url # "") =>
               RowsOf(advertisements, cand[w].url) = {}

\* Whatever became of the write, the worker leaves it for the next candidate.
LoopContinues ==
    \A w \in Workers :
        (pc[w] = "insert" /\ pc'[w] # "insert") =>
            /\ pc'[w] = "candidate"
            /\ idx'[w] = idx[w] + 1
            /\ pass'[w] = pass[w]

\* C17: after each candidate either the advertisement row and exactly the
\* tags of the keyword ids matched for it are persisted, or neither the row
\* nor any tag; a write error leaves no partial state and the loop goes on.
PerAdvertisementAtomic == [](RowAndTagsTogether) /\ [][LoopContinues]_vars

\* The write of the tags of one advertisement failed and left neither row
\* nor tag, while the other advertisement is stored with both its tags.
AtomicWitness ==
    \E w \in Workers :
        /\ cand[w].done
        /\ cand[w].error
        /\ cand[w].url = "u2"
        /\ faults["u2"] = "tags"
        /\ matches["u2"] = {1, 2}
        /\ RowsOf(advertisements, "u2") = {}
        /\ Len(advertisements) = 1
        /\ TagsOf(1) = {1, 2}

\* C12 as stated: for both engines a sitemap fragment that answers non-200,
\* is empty or is malformed is skipped and the links of every other fragment
\* are still yielded; here, every content page answering 200 and the store
\* starting empty, each of them has its row when the pass is over.
EveryGoodFragmentEnumerated ==
    \A w \in Workers :
        (pc[w] = "idle" /\ pass[w] >= 1) =>
            \A f \in 1..Len(sitemaps[w].nested) :
                \A i \in 1..Len(sitemaps[w].nested[f].links) :
                    RowsOf(advertisements, sitemaps[w].nested[f].links[i]) # {}

\* C13 as stated: a source whose robots declaration cannot be fetched (the
\* request raises or the answer has an error status) or parsed requests no
\* content page and stores nothing in the pass.
NoPolicyNoCrawl ==
    \A w \in Workers :
        robots[w].fetch # "ok" =>
            /\ req[w].kind # "content"
            /\ cand[w].tries = 0
            /\ stored[w] = {}

\* ---------------------------------------------------------------- C14
\* C14: an unregistered engine in the configuration is raised as a fatal
\* error before any harvester thread is started: at the step that raises it
\* no thread exists and no pass has begun.
RaisedBeforeAnyStart ==
    [][(main'.error /\ ~main.error) =>
           (main.threads = <<>> /\ \A w \in Workers : pass[w] = 0)]_vars

\* ---------------------------------------------------------------- C15
\* C15: harvest_command runs one thread per configured portal and returns
\* only when every one of them has finished.
ReturnsAfterAllFinished ==
    main.pc = "returned" =>
        /\ Len(main.threads) = Len(portals)
        /\ \A i \in 1..Len(main.threads) : Finished(main.threads[i])

\* ---------------------------------------------------------------- C16
\* The URL listed by the sitemap of the portal of w.
UrlOf(w) == IF w = "w1" THEN "u1" ELSE "u2"

\* The request for the URL of w ends in a row: it answers 200 at once or
\* after the retry.
Answers200(w) ==
    \/ \E a \in site[UrlOf(w)].first : a.status = 200
    \/ \E a \in site[UrlOf(w)].retry : a.status = 200

\* A finished thread whose URL is served has stored its row, whatever
\* became of the other thread.
OwnRowStored ==
    \A w \in Workers :
        (Finished(w) /\ Answers200(w)) => RowsOf(advertisements, UrlOf(w)) # {}

\* Stored rows are never changed or removed.
RowsKept ==
    /\ Len(advertisements') >= Len(advertisements)
    /\ \A i \in 1..Len(advertisements) : advertisements'[i] = advertisements[i]

\* C16: a worker that ends with an error leaves the others alone: every
\* started worker runs its pass to the end, a worker whose URL is served
\* has its row stored when it finishes, and no stored row is touched.
WorkersIndependent ==
    /\ []OwnRowStored
    /\ [][RowsKept]_vars
    /\ \A w \in Workers : (Running(w) ~> Finished(w))

\* One worker ended on a raising request, the other finished with its row.
WorkersIndependentWitness ==
    \E w, v \in Workers :
        /\ w # v
        /\ Finished(w) /\ cand[w].error /\ RowsOf(advertisements, UrlOf(w)) = {}
        /\ Finished(v) /\ RowsOf(advertisements, UrlOf(v)) # {}
\* ---------------------------------------------------------------- C18
\* After a call of update_advertisement_keywords the advertisement has
\* exactly the ids of that call.
LatestTagsOnly ==
    main.update.ad_id # 0 => TagsOf(main.update.ad_id) = Ids(main.update.keyword_ids)

\* A call leaves the tags of every other advertisement as they were.
OtherTagsKept ==
    (main'.op = "update_advertisement_keywords" /\ main' # main) =>
        \A id \in 1..Len(advertisements) :
            id # main'.update.ad_id =>
                {t \in keyword_advertisement' : t[2] = id}
                    = {t \in keyword_advertisement : t[2] = id}

\* C18: update_advertisement_keywords(id, K1) followed by
\* update_advertisement_keywords(id, K2) leaves exactly the associations of
\* K2 for id, none when K2 is empty, and the tags of every other
\* advertisement unchanged.
TagReplacement == []LatestTagsOnly /\ [][OtherTagsKept]_vars

\* Two calls in a row for one advertisement, the first with an id the second
\* does not list, while the other advertisement has tags.
TagReplacementWitness ==
    /\ main.pc = "calls"
    /\ main.op = "update_advertisement_keywords"
    /\ main.previous.ad_id = main.update.ad_id
    /\ Ids(main.previous.keyword_ids) \ Ids(main.update.keyword_ids) # {}
    /\ \E t \in keyword_advertisement : t[2] # main.update.ad_id

\* ---------------------------------------------------------------- C19
\* No two rows of keywords have the same search text.
SearchUnique ==
    \A i, j \in 1..Len(keywords) : keywords[i].search = keywords[j].search => i = j

\* insert_keyword keeps every row with its id; a keyword whose search text is
\* in the table changes nothing, any other adds one row.
InsertedIfAbsent ==
    (main'.op = "insert_keyword" /\ main.pc = "calls") =>
        /\ \A i \in 1..Len(keywords) : keywords'[i] = keywords[i]
        /\ IF \E i \in 1..Len(keywords) : keywords[i].search = Val(main'.keyword).search
           THEN keywords' = keywords
           ELSE keywords' = Append(keywords, Val(main'.keyword))

\* C19: insert_keyword is insert-if-absent by search: a keyword whose search
\* text exists leaves the table unchanged (one row for that search, with the
\* original id, title and case_sensitive).
InsertIfAbsentBySearch == []SearchUnique /\ [][InsertedIfAbsent]_vars

\* The keyword inserted last has the search text of a row that holds another
\* title: the row of the first insert is still the only one.
InsertIfAbsentWitness ==
    /\ main.pc = "calls"
    /\ main.op = "insert_keyword"
    /\ \E i \in 1..Len(keywords) :
           /\ keywords[i].search = Val(main.keyword).search
           /\ keywords[i].title # Val(main.keyword).title

\* ---------------------------------------------------------------- C20
\* C20: a keyword whose pattern does not compile is rejected at insert: the
\* keywords table never holds a row whose search text does not compile.
InvalidPatternRejected ==
    \A i \in 1..Len(keywords) : Compiles(keywords[i].search)
\* ---------------------------------------------------------------- C21
\* The ids of the keywords whose pattern compiles.
CompilingIds == {i \in 1..Len(keywords) : Compiles(keywords[i].search)}

\* C21: a keyword whose pattern does not compile is dropped alone: a pass
\* over URLs that answer 200 ends with every URL stored and tagged with the
\* matching keywords among those that compile.
InvalidKeywordOnlyDropped ==
    \A w \in Workers :
        (pc[w] = "idle" /\ pass[w] = 1) =>
            \A i \in 1..Len(sitemaps[w].nested[1].links) :
                LET u == sitemaps[w].nested[1].links[i]
                IN  \E id \in RowsOf(advertisements, u) :
                        TagsOf(id) = matches[u] \cap CompilingIds
\* ---------------------------------------------------------------- C25
\* The cookies a call with cookies=self.cookies sends: the names in
\* self._cookies.
Jar(w) == IF IsNone(Attr(w, "cookies")) THEN {} ELSE Val(Attr(w, "cookies"))

\* C25: a cookie set by a response stays in the jar of the harvester, so
\* every later request that sends cookies carries it, also after later
\* responses have set other cookies.
CookiesCarriedForward == [][\A w \in Workers : Jar(w) \subseteq Jar(w)']_vars
\* ---------------------------------------------------------------- C26
RECURSIVE LinksFrom(_, _)
\* The links of the sitemaps of w from fragment f on, in document order.
LinksFrom(w, f) ==
    IF f > Len(sitemaps[w].nested) THEN <<>>
    ELSE sitemaps[w].nested[f].links \o LinksFrom(w, f + 1)

\* The place of a URL in the enumeration of w.
Pos(w, u) ==
    CHOOSE i \in 1..Len(LinksFrom(w, 1)) :
        /\ LinksFrom(w, 1)[i] = u
        /\ \A j \in 1..(i - 1) : LinksFrom(w, 1)[j] # u

\* The ids a worker assigned in its pass grow with the place of the URL.
InEnumerationOrder ==
    \A w \in Workers : \A a, b \in stored[w] :
        a < b => Pos(w, advertisements[a].url) < Pos(w, advertisements[b].url)

\* A content request on its way, a response being classified and an advert
\* being stored all belong to the one candidate not yet done with.
OneInFlight ==
    \A w \in Workers :
        /\ req[w].kind = "content" => (req[w].url = cand[w].url /\ ~cand[w].done)
        /\ pending[w].kind = "content" =>
               (pending[w].url = cand[w].url /\ ~cand[w].done)
        /\ pc[w] \in {"select", "insert"} =>
               (advert[w].link = cand[w].url /\ ~cand[w].done)

\* The next candidate is taken only when the one before is done with.
OneAtATime ==
    \A w \in Workers :
        (/\ cand'[w] # cand[w]
         /\ \/ cand'[w] = [NoCand EXCEPT !.url = cand'[w].url]
            \/ cand'[w] = [NoCand EXCEPT !.url = cand'[w].url, !.known = TRUE,
                                         !.done = TRUE]
         /\ cand'[w].url # "")
        => (cand[w].url = "" \/ cand[w].done)

\* C26: within one worker the pipeline is sequential: its rows are stored in
\* the order of the enumeration, and a candidate is fetched only after the
\* one before it was skipped, failed or stored.
SequentialPipeline ==
    /\ [](InEnumerationOrder /\ OneInFlight)
    /\ [][OneAtATime]_vars

\* A worker has stored two rows in one pass while the other worker runs.
SequentialPipelineWitness ==
    \E w, v \in Workers :
        /\ w # v
        /\ Cardinality(stored[w]) >= 2
        /\ pass[v] >= 1
\* ---------------------------------------------------------------- C27
\* The candidate of w ends in a skip: its response, the first or the one of
\* the retry, is a 410 or another non-200 status and the loop goes on.
Skipped(w) == pc[w] \in {"first", "retried"} /\ pc'[w] = "candidate"

\* C27: every candidate that ends in a permanent skip (410) or a fetch
\* failure (non-200, also after the retry) is counted in a counter of the
\* summary of the pass.
SkipsCounted ==
    [][\A w \in Workers :
          Skipped(w) => \E c \in DOMAIN counters[w] : counters'[w][c] > counters[w][c]]_vars
\* ---------------------------------------------------------------- C28
\* harvest() has left an exception to its caller.  No step of harvest() does:
\* its outer handler catches every Exception.
Raised(w) == pc[w] = "raised"

\* C28: harvest() of an engine without get_next_link raises
\* NotImplementedError to the caller, sends no request and stores nothing.
NotImplementedRaised ==
    \A w \in Workers :
        (~Implemented(w) /\ pass[w] >= 1 /\ pc[w] # "links") =>
            /\ Raised(w)
            /\ "last_request" \notin self[w].own
            /\ stored[w] = {}
\* ---------------------------------------------------------------- C22
\* The ids of the keywords whose pattern is found in a text.
Found(t) == {main.regexes[i][1] : i \in {j \in DOMAIN main.regexes :
                                            Search(main.regexes[j][2], t)}}

\* C22: without a title the title-only scope gives the empty list, also when
\* the description matches; without title and description the full scope
\* gives the ids of the keywords found in the raw body.
MatchScopeFallback ==
    main.pc = "match" =>
        /\ (main.title_only /\ IsNone(main.advert.title)) => main.result = <<>>
        /\ (~main.title_only /\ IsNone(main.advert.title)
                /\ IsNone(main.advert.description)) =>
               Ids(main.result) = Found(main.advert.source)

\* The full scope has found a keyword in the raw body of an advertisement
\* without title and description.
MatchScopeFallbackWitness ==
    /\ main.pc = "match"
    /\ ~main.title_only
    /\ IsNone(main.advert.title) /\ IsNone(main.advert.description)
    /\ main.result # <<>>

\* ---------------------------------------------------------------- C23
\* A title or description is present when it is not None and not empty.
Present(t) == ~IsNone(t) /\ Len(Val(t)) > 0

\* The text of the full scope.
FullText(ad) ==
    IF Present(ad.title) /\ Present(ad.description)
    THEN Val(ad.title) \o <<" ">> \o Val(ad.description)
    ELSE IF Present(ad.title) THEN Val(ad.title)
    ELSE IF Present(ad.description) THEN Val(ad.description)
    ELSE ad.source

\* C23: under the full scope the result holds exactly the ids of the keywords
\* found in title + " " + description, or in the one present, or in the raw
\* body; it holds no id twice, whatever the order of the keywords; a keyword
\* of the description alone is found by the full scope, not by title-only.
FullScopeText ==
    main.pc = "match" =>
        /\ ~main.title_only => Ids(main.result) = Found(FullText(main.advert))
        /\ Cardinality(Ids(main.result)) = Len(main.result)
        /\ (main.title_only /\ Present(main.advert.title)) =>
               Ids(main.result) = Found(Val(main.advert.title))

\* The full scope has found a keyword that only the description holds, the
\* keywords given in another order than their ids.
FullScopeTextWitness ==
    /\ main.pc = "match"
    /\ ~main.title_only
    /\ Present(main.advert.title) /\ Present(main.advert.description)
    /\ Found(Val(main.advert.title)) = {}
    /\ Found(main.advert.source) = {}
    /\ main.result # <<>>
    /\ Len(main.regexes) = 2 /\ main.regexes[1][1] = 2

\* ---------------------------------------------------------------- C24
\* A text holds a pattern in the exact case, or in some case.
HoldsExactly(t, p) == Occurs(p, t)
HoldsInSomeCase(t, p) == Occurs(Fold(p), Fold(t))

\* C24: a keyword stored with case_sensitive matches only a text holding its
\* pattern in the exact case; one stored without matches in any case.
CaseSensitivity ==
    main.pc = "match" =>
        \A i \in DOMAIN main.regexes :
            LET id == main.regexes[i][1]
                t == SearchText(main.advert, main.title_only)
            IN  ~IsNone(t) =>
                    (id \in Ids(main.result)) =
                        IF keywords[id].case_sensitive
                        THEN HoldsExactly(Val(t), keywords[id].search)
                        ELSE HoldsInSomeCase(Val(t), keywords[id].search)

\* A text in lower case is matched by the keyword stored without
\* case_sensitive and not by the one stored with it.
CaseSensitivityWitness ==
    /\ main.pc = "match"
    /\ main.advert.title = Some(<<"s", "q", "l">>)
    /\ main.title_only
    /\ keywords = CaseKeywords
    /\ Ids(main.result) = {2}
\* ---------------------------------------------------------------- C29
\* The database as it is now.
Db == Database(keywords, truncated, keyword_advertisement)

\* The keyword ids the advertisement is tagged with.
TaggedWith(ad_id) == {t[1] : t \in {k \in keyword_advertisement : k[2] = ad_id}}

\* C29: the analyze command hands --include-description to the run, which
\* takes it, and the run has then tagged every advertisement of the id range
\* with the keywords found in the chosen scope: the title alone without the
\* flag, title and description with it.
AnalyzeCommandRetags ==
    main.op = "analyze_command" =>
        /\ main.raised = "none"
        /\ \A ad_id \in 1..Len(advertisements) :
               InRange(ad_id, main.options.min_id, main.options.max_id) =>
                   TaggedWith(ad_id) =
                       Ids(KeywordManager_match_keywords(
                               Extract(advertisements[ad_id].html_body),
                               compile_keyword_patterns(Db),
                               ~main.options.include_description))
\* ---------------------------------------------------------------- C30
\* C30: the matchers a run of run_analysis has tagged advertisements with are
\* those compiled from the keywords table as it was when the matching began
\* (the matching leaves the table as it is), so none of them belongs to a
\* keyword a reset has deleted.
CacheReflectsKeywords ==
    (main.op = "run_analysis" /\ ~IsNone(main.used)) =>
        Val(main.used) = compile_keyword_patterns(Db)
\* ---------------------------------------------------------------- C31
\* A call without refresh, a call with refresh=True.
Query == main'.queries = main.queries + 1
Refreshing == main'.refreshes = main.refreshes + 1

\* The requests for robots.txt the step has sent.
RobotsGets == main'.gets - main.gets

\* C31 (as stated): the first call on the instance sends the one request for
\* robots.txt, no later call without refresh sends another, and a call with
\* refresh=True sends exactly one.
RobotsFetchedOnce ==
    [][/\ Query => RobotsGets = IF main.queries + main.refreshes = 0 THEN 1 ELSE 0
       /\ Refreshing => RobotsGets = 1]_vars

\* C31 (amended): a call without refresh sends one request for robots.txt
\* while no request for it has returned, and none once one has; a call with
\* refresh=True sends exactly one.
RobotsFetchedOnceReturned ==
    [][/\ Query => RobotsGets = IF main.gets = main.raised THEN 1 ELSE 0
       /\ Refreshing => RobotsGets = 1]_vars

\* Three queries and a refresh, no request raised: two requests in all.
RobotsFetchedOnceWitness ==
    /\ main.pc = "queries" /\ main.queries = 3 /\ main.refreshes = 1
    /\ main.raised = 0 /\ main.gets = 2
\* ---------------------------------------------------------------- C32
\* The ids of the rows the step adds to advertisements.
Added == (Len(advertisements) + 1)..Len(advertisements')

\* C32: a row added to advertisements has http_status 200 and the body of a
\* response that its worker got in the running pass for a URL that had no row.
InsertedOnlyFetched200 ==
    [][\A id \in Added :
          LET row == advertisements'[id] IN
          /\ row.http_status = 200
          /\ RowsOf(advertisements, row.url) = {}
          /\ \E w \in Workers :
                 /\ pass[w] >= 1 /\ pc[w] = "insert"
                 /\ cand[w].url = row.url /\ cand[w].tries >= 1
                 /\ advert[w].status = 200 /\ advert[w].source = row.html_body]_vars

\* The worker has stored an advertisement that answered 200 to the retry, in
\* a store that holds the non-200 row of another URL.
InsertedOnlyFetched200Witness ==
    \E w \in Workers :
        /\ pass[w] >= 1 /\ cand[w].row # 0 /\ cand[w].first = 503 /\ cand[w].tries = 2
        /\ \E i \in 1..Len(advertisements) : advertisements[i].http_status # 200
\* ---------------------------------------------------------------- C33
\* C33: no step of a harvest pass or of an analysis run removes a row of
\* advertisements or changes one: the table keeps every row at its id with
\* its url, html_body, http_status and ad_type.
AdvertisementsOnlyGrow ==
    [][/\ Len(advertisements') >= Len(advertisements)
       /\ \A id \in 1..Len(advertisements) :
              advertisements'[id] = advertisements[id]]_vars

\* The pass has stored a new advertisement and passed over the URL that had a
\* row, and an analysis has emptied and reloaded the keywords and tagged.
AdvertisementsOnlyGrowWitness ==
    /\ Len(advertisements) = 3
    /\ \E w \in Workers : pass[w] = 1 /\ pc[w] = "idle" /\ counters[w].ads_processed = 2
    /\ main.op = "run_analysis" /\ truncated > 0 /\ keyword_advertisement # {}
\* ---------------------------------------------------------------- C34
\* harvest() is running: the summary of the pass is not logged yet.
InPass(w) == pc[w] # "idle"

\* C34: a pass that has begun reaches its end, whatever the servers answer.
PassTerminates == \A w \in Workers : InPass(w) ~> ~InPass(w)

\* A pass has ended after a link answered with a transient status twice.
PassTerminatesWitness ==
    \E w \in Workers :
        /\ pass[w] >= 1 /\ ~InPass(w)
        /\ cand[w].first \in TransientStatuses /\ cand[w].tries = 2 /\ cand[w].row = 0
\* ---------------------------------------------------------------- C35
\* The ids of the rows now in the keywords table.
KeywordIds == (truncated + 1)..(truncated + Len(keywords))

\* C35: every row of keyword_advertisement names a keyword that is in the
\* keywords table and an advertisement that is in advertisements.
TagsReferenceRows ==
    \A t \in keyword_advertisement :
        t[1] \in KeywordIds /\ t[2] \in 1..Len(advertisements)
\* ---------------------------------------------------------------- C36
\* C36: ads_stored of the running (or last) pass of a harvester is the number
\* of rows the pass has added to advertisements.
StoredCounterExact ==
    \A w \in Workers : counters[w].ads_stored = Cardinality(stored[w])
\* ---------------------------------------------------------------- C37
\* The keyword ids of the advertisement in a keyword_advertisement table.
TagsIn(table, ad_id) == {t[1] : t \in {k \in table : k[2] = ad_id}}

\* A call of run_analysis is made in the step.
Analysed == main'.op = "run_analysis" /\ main'.calls = main.calls + 1

\* C37: a run of run_analysis leaves the tags of every advertisement whose id
\* is outside [min_id, max_id] as they were, with and without reset_tables.
TagsOutsideRangeKept ==
    [][Analysed =>
          \A ad_id \in 1..Len(advertisements) :
              ~InRange(ad_id, main'.options.min_id, main'.options.max_id) =>
                  TagsIn(keyword_advertisement', ad_id) =
                      TagsIn(keyword_advertisement, ad_id)]_vars
\* ---------------------------------------------------------------- C38
\* C38: every GET a harvester has in flight for a candidate URL is for a URL
\* that the robots.txt of its portal allows: can_fetch(url) is true.
FetchedOnlyAllowed ==
    \A w \in Workers :
        req[w].kind = "content" =>
            can_fetch(Protego_parse(robots[w]), req[w].url)
\* ---------------------------------------------------------------- C39
\* The body of harvest()'s loop ends for the advertisement worker w was
\* yielded, which was fetched with status 200 and a body that is not empty,
\* and storing raised nothing.
GoodHandled(w) ==
    /\ advert[w] # NoAdvert
    /\ advert'[w] = NoAdvert
    /\ advert[w].status = 200
    /\ advert[w].source \notin {EmptyBody, BlankBody}
    /\ ~cand'[w].error

\* C39: once harvest() is through with a URL fetched with status 200 and a
\* non-empty body, no store error having occurred, advertisement_exists(url)
\* is true, whatever row the store held for the URL before the pass.
GoodFetchExists ==
    [][\A w \in Workers :
          GoodHandled(w) => advertisement_exists(advertisements', advert[w].link)]_vars
\* ---------------------------------------------------------------- C40
\* An update command without --force is run in the step.
Backfilled ==
    /\ main'.op = "update_command"
    /\ main'.calls = main.calls + 1
    /\ ~main'.options.force

\* The ids the command was restricted to.
Ranged(ad_id) == InRange(ad_id, main'.options.min_id, main'.options.max_id)

\* Every row with a missing field is selected by the pass.
MissingSelected ==
    \A ad_id \in 1..Len(advertisements) :
        (Ranged(ad_id) /\ \E f \in ColumnNames : Falsy(advertisements[ad_id][f]))
            => ad_id \in main'.selected

\* A missing field is filled when re-extraction yields a value.
MissingFilled ==
    \A ad_id \in 1..Len(advertisements), f \in ColumnNames :
        LET row == advertisements[ad_id] IN
        (Ranged(ad_id) /\ Falsy(row[f]) /\ ~Falsy(Fields(row.html_body)[f]))
            => advertisements'[ad_id][f] = Fields(row.html_body)[f]

\* Non-empty fields, url, html_body and http_status stay as they are.
PresentKept ==
    /\ Len(advertisements') = Len(advertisements)
    /\ \A ad_id \in 1..Len(advertisements) :
        LET row == advertisements[ad_id] IN
        /\ advertisements'[ad_id].url = row.url
        /\ advertisements'[ad_id].html_body = row.html_body
        /\ advertisements'[ad_id].http_status = row.http_status
        /\ \A f \in ColumnNames :
               ~Falsy(row[f]) => advertisements'[ad_id][f] = row[f]

\* C40: the update command without --force selects every advertisement that
\* harvest stored with a missing title, company, location or description,
\* fills each missing field for which re-extraction yields a value, never
\* overwrites a non-empty field and never changes url, html_body, http_status.
BackfillComplete ==
    [][Backfilled => (MissingSelected /\ MissingFilled /\ PresentKept)]_vars
====
